---- MODULE Spec2Model ----
(***************************************************************************)
(* Model of the gemini-cli-agent-sdk bridge and client.                    *)
(*                                                                         *)
(*   - SysTagParser (src/src/core/AcpWebSocketTransport.ts)                *)
(*   - GeminiBridge replay ring (src/src/server/GeminiBridge.ts)           *)
(*   - extractNewStreamSegment (stream-utils, src/unnamed/part_004)        *)
(*   - AgentChatClient content model (src/unnamed/part_005)                *)
(*                                                                         *)
(* JavaScript strings are modelled as sequences of one-character strings.  *)
(***************************************************************************)
EXTENDS Integers, Sequences, FiniteSets, TLC

VARIABLES
    \* ---- SysTagParser and the harness that feeds it ----
    mode,            \* SysTagParser.mode
    buffer,          \* SysTagParser.buffer
    captureBuffer,   \* SysTagParser.captureBuffer
    activeTag,       \* SysTagParser.activeTag ("json" | "block" | "null")
    inText,          \* the whole text of the turn, fed chunk by chunk
    inPos,           \* number of characters of inText already fed to consume()
    prevPos,         \* inPos before the last consume() call
    outText,         \* concatenation of the `output` of all calls so far
    outEvents,       \* concatenation of the `events` of all calls so far
    lastResult,      \* the SysTagParseResult of the last call
    flushed,         \* TRUE once the stop-of-turn flush() has run
    transformLog,    \* the calls of the outgoing transform: [msg, before, after, forward, extra]
    \* ---- GeminiBridge ----
    wss,             \* GeminiBridge.wss: 0 (null) or the id of the listener it references
    geminiProcess,   \* GeminiBridge.geminiProcess: 0 (null) or the pid of the child
    spawnCount,      \* number of child processes spawned so far
    isAuthPending,   \* GeminiBridge.isAuthPending
    pendingAuthUrl,  \* GeminiBridge.pendingAuthUrl is set
    history,         \* GeminiBridge.history: the replay ring
    turnId,          \* GeminiBridge.turnId
    turnHiddenModes, \* GeminiBridge.turnHiddenModes: turn id -> hidden mode
    now,             \* Date.now() on the server
    stdin,           \* frames written to the stdin of the child processes
    clients,         \* per client socket: [open, query, sent, listener (the one that accepted it)]
    turnAtSpawn,     \* value of turnId when the current child was spawned
    steps,           \* client frames and child outputs handled so far
    received,        \* the frames received from clients: [client, frame, authPending]
    fsRequests,      \* the fs/* requests of the child handled so far, in order
    fsCalls,         \* the calls made to the fs module, in order
    currentTurnModifiedFiles, \* GeminiBridge.currentTurnModifiedFiles
    checkpoints,     \* the calls of triggerCheckpoint: the files handed over, in order
    fsWritten,       \* the successful writes: path, turn and child, in order
    lines,           \* the stdout lines handled by GeminiLine and what was logged for each
    optSessionId,    \* GeminiBridge.options.sessionId is set (not the empty string)
    acpSessionId,    \* GeminiBridge.acpSessionId: 0 (null) or the id of the session
    restartTimers,   \* restart timers set by the 'close' handler and not yet fired
    spawnFailed,     \* the last startGemini() call logged 'Failed to spawn process'
    children,        \* the children whose 'close' has not fired yet: pid -> "running" | "killed"
    listeners,       \* the listeners created by start(), by id: TRUE until closed
    \* ---- extractNewStreamSegment ----
    segPrevious,     \* the argument `previous`
    segIncoming,     \* the argument `incoming`
    segResult,       \* the value returned
    segDone,         \* TRUE once the call has returned
    \* ---- AgentChatClient ----
    messages,        \* AgentChatClient.messages
    handled,         \* the notifications handled, in arrival order
    sessionId,       \* AgentChatClient.sessionId: 0 (null) or the id of the session
    inTurn,          \* AgentChatClient.inTurn
    activeAssistantId,        \* AgentChatClient.activeAssistantId, 0 for null
    lastFinalizedAssistantId, \* AgentChatClient.lastFinalizedAssistantId, 0 for null
    idCounter,       \* AgentChatClient.idCounter
    currentTurnHidden,        \* AgentChatClient.currentTurnHidden
    pendingApproval, \* AgentChatClient.pendingApproval
    emitted,         \* the events emitted to the host, in order ('error' and connection_state_changed, passed on from the transport, are not kept)
    outbox,          \* the frames handed to the transport, in order
    resolving,       \* resolveApproval calls waiting at an await, oldest first
    promptRequests,  \* the sendMessage calls: [hidden, state, stopReason, request, message, overlaps]: request is the id of the promise awaited, message the id of the user message, overlaps whether inTurn was set when the call was made
    cancelRequests,  \* the cancel() calls past the session test: [state, request]; state is "sent", "resolved", "rejected"
    connectHandlers, \* the once('connected') handlers registered by connect(): autoSession of each
    sessionRequests, \* ids of the session/new requests that initializeSession() calls await
    authUrl,         \* AgentChatClient.authUrl, "" for null
    submitting,      \* the submitAuthCode() calls waiting at their await
    calls,           \* the calls made by the host, in order
    \* ---- AcpWebSocketTransport ----
    tSockets,        \* the sockets created by connect(), this.ws the last: [state, onclose]
    tReconnect,      \* options.reconnect
    tState,          \* connectionState
    tPending,        \* the ids in pendingRequests
    tPromises,       \* the promise returned by sendRequest, by request id: [state, settles]
    tTimers,         \* reconnect timers set and not yet fired
    tDisposed        \* dispose() has been called and the host has not called connect() since

parserVars == <<mode, buffer, captureBuffer, activeTag, inText, inPos, prevPos,
                outText, outEvents, lastResult, flushed, transformLog>>

bridgeVars == <<wss, geminiProcess, spawnCount, isAuthPending, pendingAuthUrl, history,
                turnId, turnHiddenModes, now, stdin, clients, turnAtSpawn, steps,
                received, fsRequests, fsCalls, currentTurnModifiedFiles, checkpoints, fsWritten, lines,
                optSessionId,
                acpSessionId, restartTimers, spawnFailed, children, listeners>>

streamVars == <<segPrevious, segIncoming, segResult, segDone>>

clientVars == <<messages, handled, sessionId, inTurn, activeAssistantId,
                lastFinalizedAssistantId, idCounter, currentTurnHidden, pendingApproval,
                emitted, outbox, resolving, promptRequests, cancelRequests, calls,
                connectHandlers, sessionRequests, authUrl, submitting>>

\* The authentication state of the client.
authVars == <<authUrl, submitting>>

\* The session set-up of the client.
sessionVars == <<connectHandlers, sessionRequests, authVars>>

\* The file-tool emulation of the bridge.
fsVars == <<fsRequests, fsCalls, currentTurnModifiedFiles, checkpoints, fsWritten, lines,
            optSessionId>>

restartVars == <<acpSessionId, restartTimers, spawnFailed, children, listeners>>

transportVars == <<tSockets, tReconnect, tState, tPending, tPromises, tTimers, tDisposed>>

vars == <<parserVars, bridgeVars, streamVars, clientVars, transportVars>>

(***************************************************************************)
(* String helpers (JavaScript String methods).                             *)
(***************************************************************************)
\* s.slice(from) with a 0-based start
SliceFrom(s, from) == SubSeq(s, from + 1, Len(s))

\* s.startsWith(p)
StartsWith(s, p) == Len(p) <= Len(s) /\ SubSeq(s, 1, Len(p)) = p

\* s.endsWith(p)
EndsWith(s, p) == Len(p) <= Len(s) /\ SubSeq(s, Len(s) - Len(p) + 1, Len(s)) = p

\* s.indexOf(p): 0-based position of the first occurrence, -1 when absent
IndexOf(s, p) ==
    LET hits == {i \in 0..(Len(s) - Len(p)) : SubSeq(s, i + 1, i + Len(p)) = p}
    IN IF hits = {} THEN -1 ELSE CHOOSE i \in hits : \A j \in hits : i <= j

\* s.trim() (the only whitespace of the modelled alphabet is the space)
RECURSIVE Trim(_)
Trim(s) ==
    IF s = <<>> THEN s
    ELSE IF Head(s) = " " THEN Trim(Tail(s))
    ELSE IF s[Len(s)] = " " THEN Trim(SubSeq(s, 1, Len(s) - 1))
    ELSE s

(***************************************************************************)
(* SysTagParser                                                            *)
(***************************************************************************)
\* The delimiters built by the constructor from options.jsonTag = "J" and
\* options.blockTag = "B".
jsonStart == <<"<", "J", ">">>
jsonEnd == <<"<", "/", "J", ">">>
blockStart == <<"<", "B", ">">>
blockEnd == <<"<", "/", "B", ">">>

Modes == {"event", "raw", "both"}

\* JSON.parse on the modelled alphabet (< / J B > x 1 and the space): the only
\* JSON texts are the integers written with the digit 1, and the value of n
\* ones is (10^n - 1) / 9. Any other text throws a SyntaxError.
JsonParse(s) ==
    IF s # <<>> /\ \A i \in 1..Len(s) : s[i] = "1"
    THEN [ok |-> TRUE, value |-> (10 ^ Len(s) - 1) \div 9]
    ELSE [ok |-> FALSE, value |-> 0]

\* The SysTagEvent built when a region closes: payload is <<value>> when
\* JSON.parse succeeds and <<>> (undefined) when it throws.
MakeEvent(tag, raw) ==
    LET parsed == JsonParse(Trim(raw))
    IN [type |-> IF tag = "json" THEN "sys_json" ELSE "sys_block",
        raw |-> raw,
        payload |-> IF parsed.ok THEN <<parsed.value>> ELSE <<>>,
        error |-> IF parsed.ok THEN "" ELSE "SyntaxError"]

TextPart(t) == [kind |-> "text", text |-> t,
                event |-> [type |-> "", raw |-> <<>>, payload |-> <<>>, error |-> ""]]
EventPart(e) == [kind |-> "event", text |-> <<>>, event |-> e]

\* appendText closure of consume()
appendText(parts, text) ==
    IF text = <<>> THEN parts
    ELSE IF parts # <<>> /\ parts[Len(parts)].kind = "text"
         THEN [parts EXCEPT ![Len(parts)].text = @ \o text]
         ELSE Append(parts, TextPart(text))

KeepLenNone(endTag) == 0

\* const keep = endTag.length - 1: the suffix of the buffer held back while no
\* end delimiter is found.
KeepLen(endTag) == Len(endTag) - 1

\* The while loop of consume(); st = [buffer, captureBuffer, activeTag, parts, events]
RECURSIVE ConsumeLoop(_, _)
ConsumeLoop(st, keepRawTags) ==
    IF st.buffer = <<>> THEN st
    ELSE IF st.activeTag = "null" THEN
        LET ltIdx == IndexOf(st.buffer, <<"<">>)
        IN IF ltIdx = -1
           THEN [st EXCEPT !.parts = appendText(@, st.buffer), !.buffer = <<>>]
           ELSE
             LET parts1 == IF ltIdx > 0 THEN appendText(st.parts, SubSeq(st.buffer, 1, ltIdx))
                           ELSE st.parts
                 buf1 == IF ltIdx > 0 THEN SliceFrom(st.buffer, ltIdx) ELSE st.buffer
             IN IF StartsWith(buf1, jsonStart)
                THEN ConsumeLoop([st EXCEPT !.parts = parts1,
                                            !.buffer = SliceFrom(buf1, Len(jsonStart)),
                                            !.activeTag = "json",
                                            !.captureBuffer = <<>>], keepRawTags)
                ELSE IF StartsWith(buf1, blockStart)
                THEN ConsumeLoop([st EXCEPT !.parts = parts1,
                                            !.buffer = SliceFrom(buf1, Len(blockStart)),
                                            !.activeTag = "block",
                                            !.captureBuffer = <<>>], keepRawTags)
                ELSE IF StartsWith(jsonStart, buf1) \/ StartsWith(blockStart, buf1)
                THEN [st EXCEPT !.parts = parts1, !.buffer = buf1]
                ELSE ConsumeLoop([st EXCEPT !.parts = appendText(parts1, <<buf1[1]>>),
                                            !.buffer = SliceFrom(buf1, 1)], keepRawTags)
    ELSE
        LET startTag == IF st.activeTag = "json" THEN jsonStart ELSE blockStart
            endTag == IF st.activeTag = "json" THEN jsonEnd ELSE blockEnd
            endIdx == IndexOf(st.buffer, endTag)
        IN IF endIdx = -1
           THEN LET keep == KeepLen(endTag)
                IN IF Len(st.buffer) > keep
                   THEN LET cut == Len(st.buffer) - keep
                        IN [st EXCEPT !.captureBuffer = @ \o SubSeq(st.buffer, 1, cut),
                                      !.buffer = SliceFrom(st.buffer, cut)]
                   ELSE st
           ELSE
             LET raw == st.captureBuffer \o SubSeq(st.buffer, 1, endIdx)
                 event == MakeEvent(st.activeTag, raw)
                 parts1 == IF keepRawTags \/ event.error # ""
                           THEN appendText(st.parts, startTag \o raw \o endTag)
                           ELSE st.parts
             IN ConsumeLoop([buffer |-> SliceFrom(st.buffer, endIdx + Len(endTag)),
                             captureBuffer |-> <<>>,
                             activeTag |-> "null",
                             parts |-> Append(parts1, EventPart(event)),
                             events |-> Append(st.events, event)], keepRawTags)

\* parts.filter(kind === 'text').map(text).join('')
RECURSIVE JoinText(_)
JoinText(parts) ==
    IF parts = <<>> THEN <<>>
    ELSE (IF Head(parts).kind = "text" THEN Head(parts).text ELSE <<>>)
         \o JoinText(Tail(parts))

\* SysTagParser.consume(chunk) on parser state ps = [mode, buffer, captureBuffer,
\* activeTag]: the new parser state and the SysTagParseResult.
consume(ps, chunk) ==
    IF ps.mode = "raw"
    THEN [state |-> ps,
          result |-> [output |-> chunk, events |-> <<>>,
                      parts |-> IF chunk # <<>> THEN <<TextPart(chunk)>> ELSE <<>>]]
    ELSE LET st == ConsumeLoop([buffer |-> ps.buffer \o chunk,
                                captureBuffer |-> ps.captureBuffer,
                                activeTag |-> ps.activeTag,
                                parts |-> <<>>, events |-> <<>>],
                               ps.mode = "both")
         IN [state |-> [mode |-> ps.mode, buffer |-> st.buffer,
                        captureBuffer |-> st.captureBuffer, activeTag |-> st.activeTag],
             result |-> [output |-> JoinText(st.parts), events |-> st.events,
                         parts |-> st.parts]]

flushWithoutStartTag(ps) ==
    [state |-> [mode |-> ps.mode, buffer |-> <<>>, captureBuffer |-> <<>>,
                activeTag |-> "null"],
     result |-> [output |-> ps.captureBuffer \o ps.buffer, events |-> <<>>,
                 parts |-> IF ps.captureBuffer \o ps.buffer # <<>>
                           THEN <<TextPart(ps.captureBuffer \o ps.buffer)>> ELSE <<>>]]

\* SysTagParser.flush()
flush(ps) ==
    IF ps.mode = "raw"
    THEN [state |-> ps, result |-> [output |-> <<>>, events |-> <<>>, parts |-> <<>>]]
    ELSE LET output == IF ps.activeTag # "null"
                       THEN (IF ps.activeTag = "json" THEN jsonStart ELSE blockStart)
                            \o ps.captureBuffer \o ps.buffer
                       ELSE ps.buffer
         IN [state |-> [mode |-> ps.mode, buffer |-> <<>>, captureBuffer |-> <<>>,
                        activeTag |-> "null"],
             result |-> [output |-> output, events |-> <<>>,
                         parts |-> IF output # <<>> THEN <<TextPart(output)>> ELSE <<>>]]

\* new SysTagParser({mode})
NewParser(m) == [mode |-> m, buffer |-> <<>>, captureBuffer |-> <<>>, activeTag |-> "null"]

(***************************************************************************)
(* Harness: a turn's text is cut into chunks at arbitrary positions and    *)
(* fed to consume() in order; flush() runs at the stop of the turn.        *)
(***************************************************************************)
MaxTokens == 2

\* The pieces the input texts are built from: closed regions with a payload
\* that parses and one that does not, bare delimiters, payload characters,
\* and delimiter fragments.
Tokens == { jsonStart \o <<" ", "1">> \o jsonEnd,
            blockStart \o <<"x">> \o blockEnd,
            jsonStart, jsonEnd, blockStart,
            <<"1">>, <<"x">>, <<"<">>, <<"<", "/">> }

RECURSIVE Texts(_)
Texts(n) ==
    IF n = 0 THEN {<<>>}
    ELSE LET shorter == Texts(n - 1)
         IN shorter \cup {t \o k : t \in shorter, k \in Tokens}

ParserState == [mode |-> mode, buffer |-> buffer, captureBuffer |-> captureBuffer,
                activeTag |-> activeTag]

ParserInit ==
    /\ mode \in Modes
    /\ buffer = <<>>
    /\ captureBuffer = <<>>
    /\ activeTag = "null"
    /\ inText \in Texts(MaxTokens)
    /\ inPos = 0
    /\ prevPos = 0
    /\ outText = <<>>
    /\ outEvents = <<>>
    /\ lastResult = [output |-> <<>>, events |-> <<>>, parts |-> <<>>]
    /\ flushed = FALSE
    /\ transformLog = <<>>

\* One consume() call with the next n characters of the text.
Consume ==
    /\ ~flushed
    /\ \E n \in 0..(Len(inText) - inPos) :
        LET r == consume(ParserState, SubSeq(inText, inPos + 1, inPos + n))
        IN /\ buffer' = r.state.buffer
           /\ captureBuffer' = r.state.captureBuffer
           /\ activeTag' = r.state.activeTag
           /\ inPos' = inPos + n
           /\ prevPos' = inPos
           /\ outText' = outText \o r.result.output
           /\ outEvents' = outEvents \o r.result.events
           /\ lastResult' = r.result
    /\ UNCHANGED <<mode, inText, flushed, transformLog, bridgeVars, streamVars, transportVars, clientVars>>

\* The stop-of-turn flush(), after the whole text has been fed.
Flush ==
    /\ ~flushed
    /\ inPos = Len(inText)
    /\ LET r == flush(ParserState)
       IN /\ buffer' = r.state.buffer
          /\ captureBuffer' = r.state.captureBuffer
          /\ activeTag' = r.state.activeTag
          /\ outText' = outText \o r.result.output
          /\ outEvents' = outEvents \o r.result.events
          /\ lastResult' = r.result
    /\ flushed' = TRUE
    /\ UNCHANGED <<mode, inText, inPos, prevPos, transformLog, bridgeVars, streamVars, transportVars, clientVars>>

\* setMode(m), which the host may call between any two calls: it assigns
\* this.mode and leaves buffer, captureBuffer and activeTag as they are.
SetMode ==
    /\ \E m \in Modes : mode' = m
    /\ UNCHANGED <<buffer, captureBuffer, activeTag, inText, inPos, prevPos, outText, outEvents,
                   lastResult, flushed, transformLog, bridgeVars, streamVars, transportVars,
                   clientVars>>

\* flush() called before the text has ended; the host goes on feeding chunks.
FlushBetween ==
    /\ ~flushed
    /\ inPos < Len(inText)
    /\ \E r \in {flush(ParserState)} :
          /\ buffer' = r.state.buffer
          /\ captureBuffer' = r.state.captureBuffer
          /\ activeTag' = r.state.activeTag
          /\ outText' = outText \o r.result.output
          /\ outEvents' = outEvents \o r.result.events
          /\ lastResult' = r.result
    /\ UNCHANGED <<mode, inText, inPos, prevPos, flushed, transformLog, bridgeVars, streamVars,
                   transportVars, clientVars>>

\* A parser whose mode stays the one it was constructed with.
ParserNext == Consume \/ Flush

\* A parser whose mode the host changes between calls.
ParserModeNext == Consume \/ Flush \/ FlushBetween \/ SetMode

(***************************************************************************)
(* GeminiBridge: replay ring, turn counter, client connections             *)
(***************************************************************************)
MAX_HISTORY_SIZE == 2000

MaxSteps == 2       \* client frames and child outputs handled
MaxTime == 2        \* the clock is explored up to this value
MaxSpawns == 3      \* child processes spawned
MaxListeners == 2   \* listeners created by start()

\* The client sockets.
Clients == {1, 2}

\* Query parameters of a connection URL; -1 stands for an absent parameter.
Queries == { [limit |-> -1, since |-> -1, before |-> -1],
             [limit |-> 1, since |-> -1, before |-> -1],
             [limit |-> 2, since |-> -1, before |-> -1],
             [limit |-> 1, since |-> 1, before |-> -1],
             [limit |-> 1, since |-> -1, before |-> 2] }

\* params.prompt[0].meta.hidden of a session/prompt frame ("undefined": absent)
PromptHidden == {"undefined", "turn"}

\* Frames: [method, update (params.update.sessionUpdate), hidden (meta.hidden)]
Frame(method, update, hidden) == [method |-> method, update |-> update, hidden |-> hidden]

\* The JSON-RPC frames the child writes to stdout that the bridge broadcasts.
GeminiFrames == { Frame("session/update", "agent_message_chunk", ""),
                  Frame("session/request_permission", "", ""),
                  Frame("response", "", "") }

\* { ...data, __turnId, __hiddenMode }
Tagged(data, t, hm) == [turnId |-> t, hiddenMode |-> hm] @@ data

\* this.turnHiddenModes.get(t)
HiddenModeOf(modes, t) == IF t \in DOMAIN modes THEN modes[t] ELSE "undefined"

RecordHistoryNoEvict(h, entry) == Append(h, entry)

RecordHistoryAtFront(h, entry) ==
    IF Len(h) + 1 > MAX_HISTORY_SIZE THEN h ELSE <<entry>> \o h

\* this.history.push(entry); if (this.history.length > MAX_HISTORY_SIZE) this.history.shift()
RecordHistory(h, entry) ==
    LET pushed == Append(h, entry)
    IN IF Len(pushed) > MAX_HISTORY_SIZE THEN Tail(pushed) ELSE pushed

\* shouldStore of broadcastPayload
shouldStore(data, forceStore) ==
    \/ forceStore
    \/ data.method \in {"session/update", "session/request_permission",
                        "gemini/authUrl", "bridge/structured_event"}

\* this.wss.clients.forEach: ws.send to every socket of the listener w that is
\* open
SendToOpen(cl, frame, w) ==
    [c \in DOMAIN cl |-> IF cl[c].open /\ cl[c].listener = w
                         THEN [cl[c] EXCEPT !.sent = Append(@, frame)]
                         ELSE cl[c]]

\* broadcastPayload(data, forceStore): the new ring and the new clients
broadcastPayload(h, cl, data, forceStore, t, modes, time, listening) ==
    [history |-> IF shouldStore(data, forceStore)
                 THEN RecordHistory(h, [timestamp |-> time,
                                        data |-> Tagged(data, t, HiddenModeOf(modes, t))])
                 ELSE h,
     clients |-> IF listening # 0 THEN SendToOpen(cl, data, listening) ELSE cl]

\* Replay filters of handleConnection. A query value is -1 when the parameter
\* is absent; `if (since)` and `if (before)` skip the value 0 as well.
ReplayFilter(h, since, before) ==
    LET afterSince == IF since > 0 THEN SelectSeq(h, LAMBDA e : e.timestamp > since) ELSE h
    IN IF before > 0 THEN SelectSeq(afterSince, LAMBDA e : e.timestamp < before)
       ELSE afterSince

\* The turnIds array: the turn id of every entry that is the first one or
\* differs in turn id from the entry before it.
TurnIdRuns(r) ==
    LET heads == SelectSeq([i \in 1..Len(r) |-> i],
                           LAMBDA i : i = 1 \/ r[i].data.turnId # r[i - 1].data.turnId)
    IN [j \in 1..Len(heads) |-> r[heads[j]].data.turnId]

\* A limit that counts entries instead of turns.
ReplayLimitEntries(r, limit) ==
    IF limit > 0 /\ Len(r) > limit THEN SubSeq(r, Len(r) - limit + 1, Len(r)) ELSE r

\* Apply limit as "turn count": keep = new Set(turnIds.slice(-limit))
ReplayLimit(r, limit) ==
    IF limit > 0
    THEN LET ids == TurnIdRuns(r)
             from == IF Len(ids) > limit THEN Len(ids) - limit + 1 ELSE 1
             keep == {ids[j] : j \in from..Len(ids)}
         IN SelectSeq(r, LAMBDA e : e.data.turnId \in keep)
    ELSE r

\* The bridge/replay envelopes sent for the replay list r
ReplayEnvelopes(r) ==
    [i \in 1..Len(r) |-> [method |-> "bridge/replay", timestamp |-> r[i].timestamp,
                          data |-> r[i].data, replayId |-> <<r[i].timestamp, i - 1>>]]

AuthUrlFrame == Frame("gemini/authUrl", "", "")

NoClient == [open |-> FALSE, query |-> [limit |-> -1, since |-> -1, before |-> -1],
             sent |-> <<>>, listener |-> 0]

\* The state after construction: no listener, no child, an empty ring.
BridgeIdle ==
    /\ wss = 0
    /\ geminiProcess = 0
    /\ spawnCount = 0
    /\ isAuthPending = FALSE
    /\ pendingAuthUrl = FALSE
    /\ history = <<>>
    /\ turnId = 0
    /\ turnHiddenModes = <<>>
    /\ now = 1
    /\ stdin = <<>>
    /\ clients = [c \in Clients |-> NoClient]
    /\ turnAtSpawn = 0
    /\ steps = 0
    /\ received = <<>>
    /\ fsRequests = <<>>
    /\ fsCalls = <<>>
    /\ currentTurnModifiedFiles = {}
    /\ checkpoints = <<>>
    /\ fsWritten = <<>>
    /\ lines = <<>>
    /\ optSessionId = FALSE
    /\ acpSessionId = 0
    /\ restartTimers = 0
    /\ spawnFailed = FALSE
    /\ children = <<>>
    /\ listeners = <<>>

\* A ring one entry short of its capacity: the prompt of turn 1 followed by
\* session updates of that turn, all recorded at time 1, with the bridge
\* started, its first child running, and client 1 connected with ?before=1
\* (an empty replay) after the ring was filled.
AlmostFullRing ==
    [i \in 1..(MAX_HISTORY_SIZE - 1) |->
        [timestamp |-> 1,
         data |-> IF i = 1 THEN Tagged(Frame("session/prompt", "", "undefined"), 1, "undefined")
                  ELSE Tagged(Frame("session/update", "agent_message_chunk", ""), 1, "undefined")]]

BridgeAlmostFull ==
    /\ wss = 1
    /\ geminiProcess = 1
    /\ spawnCount = 1
    /\ isAuthPending = FALSE
    /\ pendingAuthUrl = FALSE
    /\ history = AlmostFullRing
    /\ turnId = 1
    /\ turnHiddenModes = <<>>
    /\ now = 1
    /\ stdin = <<>>
    /\ clients = [c \in Clients |->
                    IF c = 1 THEN [open |-> TRUE,
                                   query |-> [limit |-> -1, since |-> -1, before |-> 1],
                                   sent |-> <<>>,
                                   listener |-> 1]
                    ELSE NoClient]
    /\ turnAtSpawn = 0
    /\ steps = 0
    /\ received = <<>>
    /\ fsRequests = <<>>
    /\ fsCalls = <<>>
    /\ currentTurnModifiedFiles = {}
    /\ checkpoints = <<>>
    /\ fsWritten = <<>>
    /\ lines = <<>>
    /\ optSessionId = FALSE
    /\ acpSessionId = 0
    /\ restartTimers = 0
    /\ spawnFailed = FALSE
    /\ children = (1 :> "running")
    /\ listeners = <<TRUE>>

\* start(): create a listener, make it this.wss and call startGemini(), where
\* spawn returns the new child. Nothing tests this.wss or this.geminiProcess
\* first: a listener that was not closed stays open, a child that runs keeps
\* running unreferenced, and the sockets accepted by an earlier listener stay
\* open with their handlers attached (they are not in the new wss.clients).
Start ==
    /\ Len(listeners) < MaxListeners
    /\ spawnCount < MaxSpawns
    /\ listeners' = Append(listeners, TRUE)
    /\ wss' = Len(listeners) + 1
    /\ geminiProcess' = spawnCount + 1
    /\ spawnCount' = spawnCount + 1
    /\ isAuthPending' = FALSE
    /\ turnAtSpawn' = turnId
    /\ spawnFailed' = FALSE
    /\ children' = children @@ (spawnCount + 1 :> "running")
    /\ UNCHANGED <<acpSessionId, restartTimers, parserVars, streamVars, transportVars, clientVars, fsVars, received, pendingAuthUrl, history, turnId, turnHiddenModes, now, stdin, steps, clients>>

\* start() where spawn throws: the catch clause of startGemini logs the
\* failure and returns, the listener is set and this.geminiProcess is what it
\* was.
StartThrows ==
    /\ Len(listeners) < MaxListeners
    /\ listeners' = Append(listeners, TRUE)
    /\ wss' = Len(listeners) + 1
    /\ spawnFailed' = TRUE
    /\ UNCHANGED <<acpSessionId, restartTimers, children, parserVars, streamVars, transportVars,
                   clientVars, fsVars, received, geminiProcess, spawnCount, isAuthPending,
                   pendingAuthUrl, history, turnId, turnHiddenModes, now, stdin, clients,
                   turnAtSpawn, steps>>

\* Date.now() advances.
Tick ==
    /\ now < MaxTime
    /\ now' = now + 1
    /\ UNCHANGED <<restartVars, parserVars, streamVars, transportVars, clientVars, fsVars, received, wss, geminiProcess, spawnCount, isAuthPending, pendingAuthUrl, history,
                   turnId, turnHiddenModes, stdin, clients, turnAtSpawn, steps>>

ProcessExitWithoutTimer ==
    /\ \E p \in DOMAIN children : children' = [q \in DOMAIN children \ {p} |-> children[q]]
    /\ geminiProcess' = 0
    /\ acpSessionId' = 0
    /\ isAuthPending' = FALSE
    /\ UNCHANGED <<listeners, restartTimers, spawnFailed, parserVars, streamVars, transportVars, clientVars, fsVars, received, wss, spawnCount, pendingAuthUrl, history, turnId, turnHiddenModes, now,
                   stdin, clients, turnAtSpawn, steps>>

\* 'close' of a child that was spawned (the handler is attached to each child
\* and assigns the bridge's fields whichever child closes): clear the process
\* reference, the session and the auth flag and, if the listener is live, set
\* the restart timer.
ProcessExit ==
    /\ \E p \in DOMAIN children : children' = [q \in DOMAIN children \ {p} |-> children[q]]
    /\ geminiProcess' = 0
    /\ acpSessionId' = 0
    /\ isAuthPending' = FALSE
    /\ restartTimers' = IF wss # 0 THEN restartTimers + 1 ELSE restartTimers
    /\ UNCHANGED <<listeners, spawnFailed, parserVars, streamVars, transportVars, clientVars, fsVars, received, wss, spawnCount, pendingAuthUrl, history, turnId, turnHiddenModes, now,
                   stdin, clients, turnAtSpawn, steps>>

\* The restart timer fires: if (this.wss) startGemini(), and spawn returns
\* the new child.
RestartTimer ==
    /\ restartTimers > 0
    /\ wss # 0
    /\ spawnCount < MaxSpawns
    /\ restartTimers' = restartTimers - 1
    /\ geminiProcess' = spawnCount + 1
    /\ spawnCount' = spawnCount + 1
    /\ isAuthPending' = FALSE
    /\ spawnFailed' = FALSE
    /\ children' = children @@ (spawnCount + 1 :> "running")
    /\ turnAtSpawn' = turnId
    /\ UNCHANGED <<listeners, acpSessionId, parserVars, streamVars, transportVars, clientVars, fsVars, received, wss, pendingAuthUrl, history, turnId, turnHiddenModes, now, stdin, clients,
                   steps>>

\* The restart timer fires: if (this.wss) startGemini(), and spawn throws; the
\* catch clause logs the failure and returns.
RestartTimerThrows ==
    /\ restartTimers > 0
    /\ wss # 0
    /\ restartTimers' = restartTimers - 1
    /\ spawnFailed' = TRUE
    /\ UNCHANGED <<listeners, acpSessionId, children, parserVars, streamVars, transportVars, clientVars, fsVars,
                   received, wss, geminiProcess, spawnCount, isAuthPending, pendingAuthUrl,
                   history, turnId, turnHiddenModes, now, stdin, clients, turnAtSpawn,
                   steps>>

\* A replay that stops one entry short of the end of the ring.
ConnectOfAllButLast(queries) ==
    /\ \E c \in Clients, q \in queries, l \in DOMAIN listeners :
        /\ listeners[l]
        /\ ~clients[c].open
        /\ clients[c].sent = <<>>
        /\ LET all == ReplayLimit(ReplayFilter(history, q.since, q.before), q.limit)
               replay == SubSeq(all, 1, Len(all) - 1)
               authFrame == IF isAuthPending /\ pendingAuthUrl THEN <<AuthUrlFrame>> ELSE <<>>
           IN clients' = [clients EXCEPT ![c] =
                            [open |-> TRUE,
                             query |-> q,
                             sent |-> ReplayEnvelopes(replay) \o authFrame,
                             listener |-> l]]
    /\ UNCHANGED <<restartVars, parserVars, streamVars, transportVars, clientVars, fsVars, received, wss, geminiProcess, spawnCount, isAuthPending, pendingAuthUrl, history,
                   turnId, turnHiddenModes, now, stdin, turnAtSpawn, steps>>

\* 'connection' on a listener that is open: handleConnection(ws, req) with
\* the query parameters limit, since, before taken from queries.
ConnectOf(queries) ==
    /\ \E c \in Clients, q \in queries, l \in DOMAIN listeners :
        /\ listeners[l]
        /\ ~clients[c].open
        /\ clients[c].sent = <<>>
        /\ LET replay == ReplayLimit(ReplayFilter(history, q.since, q.before), q.limit)
               authFrame == IF isAuthPending /\ pendingAuthUrl THEN <<AuthUrlFrame>> ELSE <<>>
           IN clients' = [clients EXCEPT ![c] =
                            [open |-> TRUE,
                             query |-> q,
                             sent |-> ReplayEnvelopes(replay) \o authFrame,
                             listener |-> l]]
    /\ UNCHANGED <<restartVars, parserVars, streamVars, transportVars, clientVars, fsVars, received, wss, geminiProcess, spawnCount, isAuthPending, pendingAuthUrl, history,
                   turnId, turnHiddenModes, now, stdin, turnAtSpawn, steps>>

Connect == ConnectOf(Queries)

\* A connection URL without query parameters.
NoQuery == [limit |-> -1, since |-> -1, before |-> -1]

ConnectPlain == ConnectOf({NoQuery})

\* ws 'close': the socket is no longer open.
Disconnect ==
    /\ \E c \in Clients :
        /\ clients[c].open
        /\ clients' = [clients EXCEPT ![c].open = FALSE]
    /\ UNCHANGED <<restartVars, parserVars, streamVars, transportVars, clientVars, fsVars, received, wss, geminiProcess, spawnCount, isAuthPending, pendingAuthUrl, history,
                   turnId, turnHiddenModes, now, stdin, turnAtSpawn, steps>>

keepHidden(frame) == frame

\* if (meta.hidden) delete parsed.params.prompt[0].meta.hidden, and the meta
\* object it leaves empty: the frame as it is written to the child. The empty
\* string is falsy and stays.
stripHidden(frame) ==
    IF frame.hidden \notin {"undefined", ""} THEN [frame EXCEPT !.hidden = "undefined"]
    ELSE frame

\* ws 'message' with a session/prompt frame.
ClientPrompt ==
    /\ \E c \in Clients, hidden \in PromptHidden :
        /\ clients[c].open
        /\ geminiProcess # 0
        /\ ~isAuthPending
        /\ steps < MaxSteps
        /\ turnId' = turnId + 1
        /\ turnHiddenModes' = IF hidden # "undefined"
                              THEN (turnId + 1 :> hidden) @@ turnHiddenModes
                              ELSE turnHiddenModes
        /\ history' = RecordHistory(history,
                        [timestamp |-> now,
                         data |-> Tagged(stripHidden(Frame("session/prompt", "", hidden)),
                                         turnId + 1, hidden)])
        /\ stdin' = Append(stdin, [pid |-> geminiProcess,
                                   frame |-> stripHidden(Frame("session/prompt", "", hidden))])
        /\ received' = Append(received, [client |-> c,
                                         frame |-> Frame("session/prompt", "", hidden),
                                         authPending |-> isAuthPending])
    /\ steps' = steps + 1
    /\ UNCHANGED <<restartVars, parserVars, streamVars, transportVars, clientVars, fsVars, wss, geminiProcess, spawnCount, isAuthPending, pendingAuthUrl, now,
                   clients, turnAtSpawn>>

\* ws 'message' with gemini/submitAuthCode carrying a code.
ClientSubmitAuthCode ==
    /\ geminiProcess # 0
    /\ steps < MaxSteps
    /\ \E c \in Clients :
        /\ clients[c].open
        /\ received' = Append(received, [client |-> c,
                                         frame |-> Frame("gemini/submitAuthCode", "", ""),
                                         authPending |-> isAuthPending])
    /\ stdin' = Append(stdin, [pid |-> geminiProcess, frame |-> Frame("authCode", "", "")])
    /\ isAuthPending' = FALSE
    /\ pendingAuthUrl' = FALSE
    /\ steps' = steps + 1
    /\ UNCHANGED <<restartVars, parserVars, streamVars, transportVars, clientVars, fsVars, wss, geminiProcess, spawnCount, history, turnId, turnHiddenModes, now,
                   clients, turnAtSpawn>>

\* updateType === 'end_of_turn' || updateType === 'response.completed', where
\* updateType is data.params.update.sessionUpdate
IsTurnEnd(data) == data.update \in {"end_of_turn", "response.completed"}

\* The end of broadcastPayload, after `if (!this.wss) return`, for the frames
\* of one broadcast in order: the first frame that ends a turn hands a
\* non-empty set to triggerCheckpoint and clears it.
\* triggerCheckpoint(files) returns at once without options.sessionId
\* (options.hostApiUrl has a default) and otherwise runs up to `await fetch`;
\* the record keeps whether the call waits there.
checkpointTrigger(files, cps, frames, listening, t, pid) ==
    IF listening # 0 /\ files # {} /\ (\E i \in DOMAIN frames : IsTurnEnd(frames[i]))
    THEN [files |-> {},
          checkpoints |-> Append(cps, [files |-> files, turnId |-> t, pid |-> pid,
                                       upto |-> Len(fsWritten),
                                       fetch |-> IF optSessionId THEN "pending" ELSE "none"])]
    ELSE [files |-> files, checkpoints |-> cps]

CheckpointCreated == Frame("session/checkpoint_created", "", "")

\* triggerCheckpoint resumes after `await fetch`: with an ok reply it calls
\* response.json() and waits for it; with another reply, or when fetch
\* throws, the call ends and nothing is sent.
CheckpointReply ==
    /\ \E i \in DOMAIN checkpoints, ok \in BOOLEAN :
        /\ checkpoints[i].fetch = "pending"
        /\ checkpoints' = [checkpoints EXCEPT ![i].fetch = IF ok THEN "json" ELSE "failed"]
    /\ UNCHANGED <<restartVars, parserVars, streamVars, transportVars, clientVars, fsRequests,
                   fsCalls, currentTurnModifiedFiles, fsWritten, lines, optSessionId, received,
                   wss, geminiProcess, spawnCount, isAuthPending, pendingAuthUrl, turnId,
                   turnHiddenModes, now, stdin, turnAtSpawn, steps, history, clients>>

\* triggerCheckpoint resumes after `await response.json()`: with the body it
\* broadcasts session/checkpoint_created (no outgoing transform configured);
\* when json() throws it sends nothing.
CheckpointJson ==
    /\ \E i \in DOMAIN checkpoints, ok \in BOOLEAN :
        /\ checkpoints[i].fetch = "json"
        /\ checkpoints' = [checkpoints EXCEPT ![i].fetch = IF ok THEN "ok" ELSE "failed"]
        /\ LET b == IF ok
                    THEN broadcastPayload(history, clients, CheckpointCreated, FALSE, turnId,
                                          turnHiddenModes, now, wss)
                    ELSE [history |-> history, clients |-> clients]
           IN /\ history' = b.history
              /\ clients' = b.clients
    /\ UNCHANGED <<restartVars, parserVars, streamVars, transportVars, clientVars, fsRequests,
                   fsCalls, currentTurnModifiedFiles, fsWritten, lines, optSessionId, received,
                   wss, geminiProcess, spawnCount, isAuthPending, pendingAuthUrl, turnId,
                   turnHiddenModes, now, stdin, turnAtSpawn, steps>>

\* rl.on('line') of a child whose 'close' has not fired (the reader is
\* attached to each child spawned and nothing tests this.geminiProcess):
\* handleGeminiOutput with a line that parses as a JSON-RPC frame, which is
\* broadcast (no outgoing transform configured).
GeminiFrameOf(frames) ==
    /\ steps < MaxSteps
    /\ \E child \in DOMAIN children, f \in frames :
        LET b == broadcastPayload(history, clients, f, FALSE, turnId, turnHiddenModes, now, wss)
            cp == checkpointTrigger(currentTurnModifiedFiles, checkpoints, <<f>>, wss,
                                    turnId, child)
        IN /\ history' = b.history
           /\ clients' = b.clients
           /\ currentTurnModifiedFiles' = cp.files
           /\ checkpoints' = cp.checkpoints
    /\ steps' = steps + 1
    /\ UNCHANGED <<optSessionId, restartVars, parserVars, streamVars, transportVars, clientVars, fsRequests, fsCalls, fsWritten, lines, received, wss, geminiProcess, spawnCount, isAuthPending, pendingAuthUrl, turnId,
                   turnHiddenModes, now, stdin, turnAtSpawn>>

GeminiFrame == GeminiFrameOf(GeminiFrames)

\* handleGeminiOutput with a log line that carries the OAuth URL.
GeminiAuthUrl ==
    /\ DOMAIN children # {}
    /\ steps < MaxSteps
    /\ isAuthPending' = TRUE
    /\ pendingAuthUrl' = TRUE
    /\ LET b == broadcastPayload(history, clients, AuthUrlFrame, FALSE, turnId,
                                 turnHiddenModes, now, wss)
       IN /\ history' = b.history
          /\ clients' = b.clients
    /\ steps' = steps + 1
    /\ UNCHANGED <<restartVars, parserVars, streamVars, transportVars, clientVars, fsVars, received, wss, geminiProcess, spawnCount, turnId, turnHiddenModes, now, stdin,
                   turnAtSpawn>>

\* A message whose text is not JSON: JSON.parse throws on it.
NotJson == Frame("", "", "")

\* JSON frames that are neither gemini/submitAuthCode nor authenticate.
OtherFrames == { Frame("session/prompt", "", h) : h \in PromptHidden }
               \cup { Frame("session/cancel", "", "") }

\* ws 'message' with an authenticate request: the gate closes and the request
\* is written to the child as received.
ClientAuthenticate ==
    /\ geminiProcess # 0
    /\ steps < MaxSteps
    /\ \E c \in Clients :
        /\ clients[c].open
        /\ received' = Append(received, [client |-> c,
                                         frame |-> Frame("authenticate", "", ""),
                                         authPending |-> isAuthPending])
    /\ isAuthPending' = TRUE
    /\ stdin' = Append(stdin, [pid |-> geminiProcess, frame |-> Frame("authenticate", "", "")])
    /\ steps' = steps + 1
    /\ UNCHANGED <<restartVars, parserVars, streamVars, transportVars, clientVars, fsVars, wss, geminiProcess, spawnCount, pendingAuthUrl, history, turnId,
                   turnHiddenModes, now, clients, turnAtSpawn>>

\* ws 'message' with a JSON frame other than the two auth frames while
\* isAuthPending: logged and dropped.
ClientBlocked ==
    /\ geminiProcess # 0
    /\ isAuthPending
    /\ steps < MaxSteps
    /\ \E c \in Clients, f \in OtherFrames :
        /\ clients[c].open
        /\ received' = Append(received, [client |-> c, frame |-> f,
                                         authPending |-> isAuthPending])
    /\ steps' = steps + 1
    /\ UNCHANGED <<restartVars, parserVars, streamVars, transportVars, clientVars, fsVars, wss, geminiProcess, spawnCount, isAuthPending, pendingAuthUrl,
                   history, turnId, turnHiddenModes, now, stdin, clients, turnAtSpawn>>

\* ws 'message' with a JSON frame that is not a prompt while the gate is
\* open: JSON.stringify(parsed) is written to the child.
ClientForward ==
    /\ geminiProcess # 0
    /\ ~isAuthPending
    /\ steps < MaxSteps
    /\ \E c \in Clients :
        /\ clients[c].open
        /\ received' = Append(received, [client |-> c,
                                         frame |-> Frame("session/cancel", "", ""),
                                         authPending |-> isAuthPending])
    /\ stdin' = Append(stdin, [pid |-> geminiProcess, frame |-> Frame("session/cancel", "", "")])
    /\ steps' = steps + 1
    /\ UNCHANGED <<restartVars, parserVars, streamVars, transportVars, clientVars, fsVars, wss, geminiProcess, spawnCount, isAuthPending, pendingAuthUrl,
                   history, turnId, turnHiddenModes, now, clients, turnAtSpawn>>

\* ws 'message' while the bridge references no child (it has exited and the
\* restart timer has not fired, or spawn threw): the first test of the handler
\* logs 'Gemini process not ready' and returns before the text is parsed,
\* whatever frame it is.
ClientNotReady ==
    /\ geminiProcess = 0
    /\ steps < MaxSteps
    /\ \E c \in Clients, f \in OtherFrames \cup {NotJson, Frame("authenticate", "", ""),
                                                 Frame("gemini/submitAuthCode", "", "")} :
        /\ clients[c].open
        /\ received' = Append(received, [client |-> c, frame |-> f,
                                         authPending |-> isAuthPending])
    /\ steps' = steps + 1
    /\ UNCHANGED <<restartVars, parserVars, streamVars, transportVars, clientVars, fsVars, wss, geminiProcess, spawnCount, isAuthPending, pendingAuthUrl,
                   history, turnId, turnHiddenModes, now, stdin, clients, turnAtSpawn>>

\* A catch clause that drops the text.
ClientNotJsonDropped ==
    /\ geminiProcess # 0
    /\ steps < MaxSteps
    /\ \E c \in Clients :
        /\ clients[c].open
        /\ received' = Append(received, [client |-> c, frame |-> NotJson,
                                         authPending |-> isAuthPending])
    /\ steps' = steps + 1
    /\ UNCHANGED <<restartVars, parserVars, streamVars, transportVars, clientVars, fsVars, wss, geminiProcess, spawnCount, isAuthPending, pendingAuthUrl,
                   history, turnId, turnHiddenModes, now, clients, turnAtSpawn, stdin>>

\* ws 'message' with text that is not JSON while a child is referenced:
\* JSON.parse throws before any test of isAuthPending, and the catch clause
\* writes the text to the child. Without a child ClientNotReady handles it.
ClientNotJson ==
    /\ geminiProcess # 0
    /\ steps < MaxSteps
    /\ \E c \in Clients :
        /\ clients[c].open
        /\ received' = Append(received, [client |-> c, frame |-> NotJson,
                                         authPending |-> isAuthPending])
    /\ stdin' = Append(stdin, [pid |-> geminiProcess, frame |-> NotJson])
    /\ steps' = steps + 1
    /\ UNCHANGED <<restartVars, parserVars, streamVars, transportVars, clientVars, fsVars, wss, geminiProcess, spawnCount, isAuthPending, pendingAuthUrl,
                   history, turnId, turnHiddenModes, now, clients, turnAtSpawn>>

(***************************************************************************)
(* GeminiBridge: emulation of fs/read_text_file and fs/write_text_file      *)
(***************************************************************************)
MaxFsRequests == 2  \* fs/* requests of the child handled

\* A path is a sequence of segments, each a sequence of characters, absolute
\* or relative. params.path may be absent.
Segments == { <<"a">>, <<".", ".">>, <<".", ".", "x">> }
DotDot == <<".", ".">>

FsPaths ==
    { [given |-> FALSE, abs |-> FALSE, segs |-> <<>>] } \cup
    { [given |-> TRUE, abs |-> a, segs |-> s] :
        a \in BOOLEAN,
        s \in {<<>>} \cup { <<x>> : x \in Segments }
                     \cup { <<x, y>> : x \in Segments, y \in Segments } }

\* this.projectRootReal: the directory /a
projectRootReal == << <<"a">> >>

\* The normal form path.resolve computes: ".." removes the segment before
\* it, and stays at the root when there is none.
RECURSIVE Normalize(_, _)
Normalize(done, rest) ==
    IF rest = <<>> THEN done
    ELSE IF Head(rest) = DotDot
         THEN Normalize(IF done = <<>> THEN done ELSE SubSeq(done, 1, Len(done) - 1),
                        Tail(rest))
         ELSE Normalize(Append(done, Head(rest)), Tail(rest))

\* path.resolve(root, p)
PathResolve(root, p) == Normalize(<<>>, IF p.abs THEN p.segs ELSE root \o p.segs)

RECURSIVE CommonPrefix(_, _)
CommonPrefix(x, y) ==
    IF x = <<>> \/ y = <<>> \/ Head(x) # Head(y) THEN 0
    ELSE 1 + CommonPrefix(Tail(x), Tail(y))

\* path.relative(from, to), as a sequence of segments
PathRelative(from, to) ==
    LET k == CommonPrefix(from, to)
    IN [i \in 1..(Len(from) - k) |-> DotDot] \o SubSeq(to, k + 1, Len(to))

\* The string of a relative path: its segments joined by "/".
RECURSIVE PathString(_)
PathString(segs) ==
    IF segs = <<>> THEN <<>>
    ELSE IF Len(segs) = 1 THEN Head(segs)
    ELSE Head(segs) \o <<"/">> \o PathString(Tail(segs))

\* The value null of safeResolveProjectPath.
NullPath == [ok |-> FALSE, abs |-> <<>>]

safeResolveUnchecked(p) ==
    IF ~p.given \/ (~p.abs /\ p.segs = <<>>) THEN NullPath
    ELSE [ok |-> TRUE, abs |-> PathResolve(projectRootReal, p)]

\* safeResolveProjectPath(p): the absolute path, or null when p is absent or
\* empty or when the path relative to the root starts with "..".
safeResolveProjectPath(p) ==
    IF ~p.given \/ (~p.abs /\ p.segs = <<>>) THEN NullPath
    ELSE LET abs == PathResolve(projectRootReal, p)
             relative == PathString(PathRelative(projectRootReal, abs))
         IN IF relative = <<>> \/ (~StartsWith(relative, DotDot) /\ ~StartsWith(relative, <<"/">>))
            THEN [ok |-> TRUE, abs |-> abs]
            ELSE NullPath

\* A JSON-RPC response written to the child: code 0 for a result.
Response(id, code) == [method |-> "response", id |-> id, code |-> code]

\* sendToGemini(payload)
sendToGemini(in, pid, payload) ==
    IF pid # 0 THEN Append(in, [pid |-> pid, frame |-> payload]) ELSE in

\* handleGeminiOutput with an fs/read_text_file request: handleFsRead. The
\* child numbers its requests from 1. The read returns the content, or throws ENOENT or another error.
GeminiFsRead ==
    /\ DOMAIN children # {}
    /\ steps < MaxSteps
    /\ Len(fsRequests) < MaxFsRequests
    /\ \E p \in FsPaths :
        LET id == Len(fsRequests) + 1
            r == safeResolveProjectPath(p)
        IN /\ fsRequests' = Append(fsRequests, [method |-> "fs/read_text_file", id |-> id, path |-> p])
           /\ IF ~r.ok
              THEN /\ stdin' = sendToGemini(stdin, geminiProcess, Response(id, -32602))
                   /\ fsCalls' = fsCalls
              ELSE /\ fsCalls' = Append(fsCalls, [op |-> "readFileSync", path |-> r.abs])
                   /\ \E outcome \in {"ok", "ENOENT", "EISDIR"} :
                        stdin' = sendToGemini(stdin, geminiProcess,
                                   Response(id, IF outcome = "EISDIR" THEN -32000 ELSE 0))
    /\ steps' = steps + 1
    /\ UNCHANGED <<optSessionId, restartVars, parserVars, streamVars, transportVars, clientVars, received, currentTurnModifiedFiles, checkpoints, fsWritten, lines, wss, geminiProcess, spawnCount,
                   isAuthPending, pendingAuthUrl, history, turnId, turnHiddenModes, now, clients, turnAtSpawn>>

\* handleGeminiOutput with an fs/write_text_file request: handleFsWrite.
\* mkdirSync or writeFileSync may throw.
GeminiFsWrite ==
    /\ steps < MaxSteps
    /\ Len(fsRequests) < MaxFsRequests
    /\ \E child \in DOMAIN children, p \in FsPaths :
        LET id == Len(fsRequests) + 1
            r == safeResolveProjectPath(p)
            dirname == IF r.abs = <<>> THEN r.abs ELSE SubSeq(r.abs, 1, Len(r.abs) - 1)
            mkdir == [op |-> "mkdirSync", path |-> dirname]
            write == [op |-> "writeFileSync", path |-> r.abs]
        IN /\ fsRequests' = Append(fsRequests, [method |-> "fs/write_text_file", id |-> id, path |-> p])
           /\ IF ~r.ok
              THEN /\ stdin' = sendToGemini(stdin, geminiProcess, Response(id, -32602))
                   /\ UNCHANGED <<fsCalls, currentTurnModifiedFiles, fsWritten>>
              ELSE \E outcome \in {"ok", "mkdir throws", "write throws"} :
                    /\ fsCalls' = IF outcome = "mkdir throws" THEN Append(fsCalls, mkdir)
                                  ELSE fsCalls \o <<mkdir, write>>
                    /\ currentTurnModifiedFiles' =
                         IF outcome = "ok" THEN currentTurnModifiedFiles \cup {p}
                         ELSE currentTurnModifiedFiles
                    /\ fsWritten' =
                         IF outcome = "ok"
                         THEN Append(fsWritten, [path |-> p, turnId |-> turnId, pid |-> child])
                         ELSE fsWritten
                    /\ stdin' = sendToGemini(stdin, geminiProcess,
                                   Response(id, IF outcome = "ok" THEN 0 ELSE -32000))
    /\ steps' = steps + 1
    /\ UNCHANGED <<restartVars, parserVars, streamVars, transportVars, clientVars, received, wss, geminiProcess, spawnCount,
                   isAuthPending, pendingAuthUrl, history, turnId, turnHiddenModes, now, clients, turnAtSpawn, checkpoints, lines,
                   optSessionId>>

(***************************************************************************)
(* stream-utils: extractNewStreamSegment                                   *)
(***************************************************************************)
MaxLen == 3         \* length of the strings given to extractNewStreamSegment

\* previous.includes(incoming)
Includes(s, p) == IndexOf(s, p) # -1

\* previous.slice(-n)
SliceLast(s, n) == SubSeq(s, Len(s) - n + 1, Len(s))

\* Rectification switched off: every chunk is new.
extractWithoutRectification(previous, incoming) == incoming

\* The boundary search taken from the shortest overlap upwards.
RECURSIVE OverlapLoopAscending(_, _, _)
OverlapLoopAscending(previous, incoming, overlap) ==
    LET maxOverlap == IF Len(previous) < Len(incoming) - 1
                      THEN Len(previous) ELSE Len(incoming) - 1
        n == maxOverlap - overlap + 1
    IN IF overlap > 0
       THEN IF SliceLast(previous, n) = SubSeq(incoming, 1, n)
            THEN SliceFrom(incoming, n)
            ELSE OverlapLoopAscending(previous, incoming, overlap - 1)
       ELSE incoming

\* for (let overlap = maxOverlap; overlap > 0; overlap -= 1) { ... } return incoming
RECURSIVE OverlapLoop(_, _, _)
OverlapLoop(previous, incoming, overlap) ==
    IF overlap > 0
    THEN IF SliceLast(previous, overlap) = SubSeq(incoming, 1, overlap)
         THEN SliceFrom(incoming, overlap)
         ELSE OverlapLoop(previous, incoming, overlap - 1)
    ELSE incoming

extractNewStreamSegment(previous, incoming) ==
    IF incoming = <<>> THEN <<>>
    ELSE IF previous = <<>> THEN incoming
    ELSE IF incoming = previous THEN <<>>
    ELSE IF Len(incoming) <= Len(previous) /\ Includes(previous, incoming) THEN <<>>
    ELSE IF StartsWith(incoming, previous) THEN SliceFrom(incoming, Len(previous))
    ELSE IF EndsWith(previous, incoming) THEN <<>>
    ELSE LET maxOverlap == IF Len(previous) < Len(incoming) - 1
                           THEN Len(previous) ELSE Len(incoming) - 1
         IN OverlapLoop(previous, incoming, IF maxOverlap > 0 THEN maxOverlap ELSE 0)

\* Strings over {a, b} of length at most n.
RECURSIVE Strings(_)
Strings(n) ==
    IF n = 0 THEN {<<>>}
    ELSE Strings(n - 1) \cup {Append(s, c) : s \in Strings(n - 1), c \in {"a", "b"}}

Hello == <<"H", "e", "l", "l", "o">>
LoWorld == <<"l", "o", " ", "w", "o", "r", "l", "d">>

\* The accumulated strings explored, and the chunks explored against an
\* accumulated string p: short strings, p followed by a short string, and the
\* pair of the client test.
SegmentPrevious == Strings(MaxLen) \cup {Hello}
SegmentIncoming(p) == Strings(MaxLen) \cup {p \o s : s \in Strings(MaxLen)} \cup {LoWorld}

StreamInit ==
    /\ segPrevious \in SegmentPrevious
    /\ segIncoming \in SegmentIncoming(segPrevious)
    /\ segResult = <<>>
    /\ segDone = FALSE

StreamIdle ==
    /\ segPrevious = <<>>
    /\ segIncoming = <<>>
    /\ segResult = <<>>
    /\ segDone = FALSE

\* One call extractNewStreamSegment(previous, incoming).
Extract ==
    /\ ~segDone
    /\ segResult' = extractNewStreamSegment(segPrevious, segIncoming)
    /\ segDone' = TRUE
    /\ UNCHANGED <<segPrevious, segIncoming, parserVars, bridgeVars, clientVars, transportVars>>

(***************************************************************************)
(* AgentChatClient: messages and their ordered content                     *)
(***************************************************************************)
MaxNotifications == 3   \* frames handled by the client from the transport
MaxCalls == 2           \* calls made by the host application

\* Texts of the streamed chunks.
Chunks == { <<"a">>, <<"a", "b">>, <<"b", "a">> }

HiddenModes == {"none", "user", "assistant", "turn"}

\* How a frame reaches the client: "live", or inside a bridge/replay envelope
\* whose payload carries __hiddenMode ("undefined" when the bridge had none).
Envelopes == {"live", "undefined", "turn"}

shouldEmitUser(hiddenMode) == hiddenMode \in {"none", "assistant"}
shouldEmitAssistant(hiddenMode) == hiddenMode \in {"none", "user"}
shouldAutoRejectApproval(hiddenMode) == hiddenMode \in {"assistant", "turn"}

\* Content parts.
TextContent(t) == [type |-> "text", text |-> t]
ThoughtContent(t) == [type |-> "thought", text |-> t]
ToolCallContent(id) == [type |-> "tool_call", text |-> id]

\* A ChatMessage; id is the idCounter part of makeId(), stopReason "" is unset.
\* The literals that build a message have no seq property and no handler of
\* the client adds one, so the record has no seq field.
NewMessage(id, role, text, hidden) ==
    [id |-> id, role |-> role, text |-> text, thought |-> <<>>, content |-> <<>>,
     toolCalls |-> <<>>, hidden |-> hidden, stopReason |-> ""]

\* this.emit(name, ...): mid is the message id carried (0 when none), arg the
\* tool call id, stop reason or other string carried, req the request id.
Ev(name, mid, arg, req) == [name |-> name, mid |-> mid, arg |-> arg, req |-> req]

\* A frame handed to the transport.
Out(kind, method, id, optionId, hidden) ==
    [kind |-> kind, method |-> method, id |-> id, optionId |-> optionId, hidden |-> hidden]

\* pendingApproval = null
NoApproval == [requestId |-> 0, toolCallId |-> "", options |-> <<>>]

\* The fields of the client that the handlers read and write.
ClientState ==
    [messages |-> messages, idCounter |-> idCounter, inTurn |-> inTurn,
     activeAssistantId |-> activeAssistantId,
     lastFinalizedAssistantId |-> lastFinalizedAssistantId,
     currentTurnHidden |-> currentTurnHidden, pendingApproval |-> pendingApproval,
     emitted |-> emitted, outbox |-> outbox, resolving |-> resolving]

SetClientState(c) ==
    /\ messages' = c.messages
    /\ idCounter' = c.idCounter
    /\ inTurn' = c.inTurn
    /\ activeAssistantId' = c.activeAssistantId
    /\ lastFinalizedAssistantId' = c.lastFinalizedAssistantId
    /\ currentTurnHidden' = c.currentTurnHidden
    /\ pendingApproval' = c.pendingApproval
    /\ emitted' = c.emitted
    /\ outbox' = c.outbox
    /\ resolving' = c.resolving

Emit(c, events) == [c EXCEPT !.emitted = @ \o events]
EmitIf(c, cond, events) == IF cond THEN Emit(c, events) ELSE c

\* The 'notification' handler's bridge/replay case before it dispatches the
\* payload: a string __hiddenMode replaces currentTurnHidden.
OpenEnvelope(c, env) ==
    IF env \in HiddenModes THEN [c EXCEPT !.currentTurnHidden = env] ELSE c

\* getOrCreateAssistantMessage(): afterwards the last message is an assistant
\* message.
getOrCreateAssistantMessage(c) ==
    IF c.messages = <<>> \/ c.messages[Len(c.messages)].role # "assistant"
    THEN LET id == c.idCounter + 1
             last == NewMessage(id, "assistant", <<>>,
                                c.currentTurnHidden \in {"assistant", "turn"})
             pushed == [c EXCEPT !.idCounter = id, !.messages = Append(@, last),
                                 !.activeAssistantId = IF c.inTurn THEN id ELSE @]
         IN EmitIf(pushed, shouldEmitAssistant(c.currentTurnHidden), <<Ev("message", id, "", 0)>>)
    ELSE c

\* Rectification against the flat accumulator instead of the current part.
\* kind is "text" or "thought".
updateAgainstAccumulator(msg, kind, chunk) ==
    IF chunk = <<>> THEN msg
    ELSE LET n == Len(msg.content)
             opens == n = 0 \/ msg.content[n].type # kind
             parts == IF opens THEN Append(msg.content, [type |-> kind, text |-> <<>>])
                      ELSE msg.content
             flat == IF kind = "text" THEN msg.text ELSE msg.thought
             newSegment == extractNewStreamSegment(flat, chunk)
             parts2 == [parts EXCEPT ![Len(parts)].text = @ \o newSegment]
         IN IF newSegment = <<>> THEN [msg EXCEPT !.content = parts]
            ELSE IF kind = "text"
                 THEN [msg EXCEPT !.content = parts2, !.text = @ \o newSegment]
                 ELSE [msg EXCEPT !.content = parts2, !.thought = @ \o newSegment]

\* The current part is overwritten with the chunk instead of being extended.
updateOverwritingPart(msg, kind, chunk) ==
    IF chunk = <<>> THEN msg
    ELSE LET n == Len(msg.content)
             opens == n = 0 \/ msg.content[n].type # kind
             parts == IF opens THEN Append(msg.content, [type |-> kind, text |-> <<>>])
                      ELSE msg.content
             parts2 == [parts EXCEPT ![Len(parts)].text = chunk]
         IN IF kind = "text"
            THEN [msg EXCEPT !.content = parts2, !.text = chunk]
            ELSE [msg EXCEPT !.content = parts2, !.thought = chunk]

\* updateAssistantMessageNormalized({ text }) or ({ thought }) on the message
\* returned by getOrCreateAssistantMessage. kind is "text" or "thought".
updateAssistantMessageNormalized(msg, kind, chunk) ==
    IF chunk = <<>> THEN msg
    ELSE LET n == Len(msg.content)
             opens == n = 0 \/ msg.content[n].type # kind
             parts == IF opens THEN Append(msg.content, [type |-> kind, text |-> <<>>])
                      ELSE msg.content
             currentPart == parts[Len(parts)].text
             newSegment == extractNewStreamSegment(currentPart, chunk)
             parts2 == [parts EXCEPT ![Len(parts)].text = @ \o newSegment]
         IN IF newSegment = <<>> THEN [msg EXCEPT !.content = parts]
            ELSE IF kind = "text"
                 THEN [msg EXCEPT !.content = parts2, !.text = @ \o newSegment]
                 ELSE [msg EXCEPT !.content = parts2, !.thought = @ \o newSegment]

\* The events of updateAssistantMessageNormalized when the segment is not empty.
DeltaEvents(kind, mid) ==
    IF kind = "text"
    THEN <<Ev("text_delta", mid, "", 0), Ev("assistant_text_delta", mid, "", 0),
           Ev("message_update", mid, "", 0)>>
    ELSE <<Ev("thought_delta", mid, "", 0), Ev("assistant_thought_delta", mid, "", 0),
           Ev("message_update", mid, "", 0)>>

\* The chunk is dropped while the assistant side of the turn is hidden.
handleChunkWhenVisible(c, kind, chunk) ==
    IF ~shouldEmitAssistant(c.currentTurnHidden) THEN c
    ELSE LET c1 == getOrCreateAssistantMessage(c)
             n == Len(c1.messages)
             last == updateAssistantMessageNormalized(c1.messages[n], kind, chunk)
         IN Emit([c1 EXCEPT !.messages[n] = last], DeltaEvents(kind, last.id))

\* handleSessionUpdate for agent_message_chunk / agent_thought_chunk.
handleChunk(c, kind, chunk) ==
    LET c1 == getOrCreateAssistantMessage(c)
        n == Len(c1.messages)
        before == c1.messages[n]
        last == updateAssistantMessageNormalized(before, kind, chunk)
        grew == last.text # before.text \/ last.thought # before.thought
    IN EmitIf([c1 EXCEPT !.messages[n] = last],
              grew /\ shouldEmitAssistant(c1.currentTurnHidden),
              DeltaEvents(kind, last.id))

\* update.status || 'running', with in_progress read as running
ToolStatus(status) == IF status \in {"", "in_progress"} THEN "running" ELSE status

\* A ToolCall: its id and status.
ToolCall(id, status) == [id |-> id, status |-> status]

\* The ids of the tool calls of a message, in order.
ToolCallIds(msg) == [i \in 1..Len(msg.toolCalls) |-> msg.toolCalls[i].id]

\* handleToolCall(update): toolCalls.push, content.push
handleToolCall(msg, id, status) ==
    [msg EXCEPT !.toolCalls = Append(@, ToolCall(id, ToolStatus(status))),
                !.content = Append(@, ToolCallContent(id))]

\* handleSessionUpdate for tool_call.
handleToolCallUpdate(c, id, status) ==
    LET c1 == getOrCreateAssistantMessage(c)
        n == Len(c1.messages)
        last == handleToolCall(c1.messages[n], id, status)
    IN EmitIf([c1 EXCEPT !.messages[n] = last],
              shouldEmitAssistant(c1.currentTurnHidden),
              <<Ev("tool_update", last.id, id, 0), Ev("tool_call_started", last.id, id, 0),
                Ev("message_update", last.id, "", 0)>>)

\* createToolCallFromPermission(last, pending) on the last message: an
\* existing call with the id is kept, otherwise a queued call is pushed and
\* announced.
createToolCallFromPermission(c, pending) ==
    LET n == Len(c.messages)
        last == c.messages[n]
        id == pending.toolCallId
        existing == \E i \in 1..Len(last.toolCalls) : last.toolCalls[i].id = id
        pushed == [last EXCEPT !.toolCalls = Append(@, ToolCall(id, "queued")),
                               !.content = Append(@, ToolCallContent(id))]
    IN IF existing THEN c
       ELSE Emit([c EXCEPT !.messages[n] = pushed],
                 <<Ev("tool_update", last.id, id, 0), Ev("tool_call_started", last.id, id, 0),
                   Ev("message_update", last.id, "", 0)>>)

\* Index of the first tool call of msg with the id, 0 when there is none.
FindToolCall(msg, id) ==
    LET hits == {i \in 1..Len(msg.toolCalls) : msg.toolCalls[i].id = id}
    IN IF hits = {} THEN 0 ELSE CHOOSE i \in hits : \A j \in hits : i <= j

\* handleToolUpdate(update) for tool_call_update; status "" is an update
\* without status.
handleToolUpdate(c, id, status) ==
    LET c1 == getOrCreateAssistantMessage(c)
        n == Len(c1.messages)
        fromPermission == /\ FindToolCall(c1.messages[n], id) = 0
                          /\ c1.pendingApproval # NoApproval
                          /\ c1.pendingApproval.toolCallId = id
        c2 == IF fromPermission THEN createToolCallFromPermission(c1, c1.pendingApproval)
              ELSE c1
        k == FindToolCall(c2.messages[n], id)
        newStatus == IF status = "" THEN c2.messages[n].toolCalls[k].status
                     ELSE ToolStatus(status)
        c3 == [c2 EXCEPT !.messages[n].toolCalls[k].status = newStatus]
        mid == c3.messages[n].id
        visible == shouldEmitAssistant(c3.currentTurnHidden)
        c4 == EmitIf(c3, visible,
                     <<Ev("tool_update", mid, id, 0), Ev("tool_call_updated", mid, id, 0)>>)
        c5 == EmitIf(c4, visible /\ newStatus \in {"completed", "failed", "cancelled"},
                     <<Ev("tool_call_completed", mid, id, 0)>>)
    IN IF k = 0 THEN c2
       ELSE EmitIf(c5, visible, <<Ev("message_update", mid, "", 0)>>)

\* handleSessionUpdate for end_of_turn.
handleEndOfTurn(c, stopReason) ==
    LET c1 == EmitIf(c, shouldEmitAssistant(c.currentTurnHidden),
                     <<Ev("turn_completed", 0, stopReason, 0)>>)
        found == \E i \in 1..Len(c.messages) : c.messages[i].id = c.activeAssistantId
        finalize == /\ c.activeAssistantId # 0
                    /\ found
                    /\ c.lastFinalizedAssistantId # c.activeAssistantId
        c2 == IF finalize
              THEN EmitIf([c1 EXCEPT !.lastFinalizedAssistantId = c.activeAssistantId],
                          shouldEmitAssistant(c.currentTurnHidden),
                          <<Ev("assistant_text_final", c.activeAssistantId, "", 0)>>)
              ELSE c1
    IN [c2 EXCEPT !.inTurn = FALSE, !.currentTurnHidden = "none"]

\* An option of a permission request: kind is the option kind cut into words.
Option(optionId, kind) == [optionId |-> optionId, kind |-> kind]

\* The last option whose kind starts with deny or reject is taken.
FindLastDenyOption(options) ==
    LET hits == {i \in 1..Len(options) :
                    \/ StartsWith(options[i].kind, <<"deny">>)
                    \/ StartsWith(options[i].kind, <<"reject">>)}
    IN IF hits = {} THEN 0 ELSE CHOOSE i \in hits : \A j \in hits : j <= i

\* options.find(opt => opt.kind.startsWith('deny') || opt.kind.startsWith('reject')):
\* the index of the first such option, 0 when there is none.
FindDenyOption(options) ==
    LET hits == {i \in 1..Len(options) :
                    \/ StartsWith(options[i].kind, <<"deny">>)
                    \/ StartsWith(options[i].kind, <<"reject">>)}
    IN IF hits = {} THEN 0 ELSE CHOOSE i \in hits : \A j \in hits : i <= j

\* resolveApproval(requestId, optionId) up to its first await: the response is
\* handed to the transport and the rest of the call waits as a continuation.
resolveApproval(c, requestId, optionId) ==
    [c EXCEPT !.outbox = Append(@, Out("response", "", requestId, optionId, "")),
              !.resolving = Append(@, [requestId |-> requestId, optionId |-> optionId,
                                       pc |-> "notify"])]

\* handlePermissionRequest(req)
handlePermissionRequest(c, requestId, toolCallId, options) ==
    IF shouldAutoRejectApproval(c.currentTurnHidden)
    THEN LET d == FindDenyOption(options)
         IN IF d = 0 THEN c ELSE resolveApproval(c, requestId, options[d].optionId)
    ELSE LET pending == [requestId |-> requestId, toolCallId |-> toolCallId,
                         options |-> options]
             c1 == getOrCreateAssistantMessage([c EXCEPT !.pendingApproval = pending])
             c2 == createToolCallFromPermission(c1, pending)
         IN EmitIf(c2, shouldEmitAssistant(c.currentTurnHidden),
                   <<Ev("approval_required", 0, toolCallId, requestId),
                     Ev("permission_required", 0, toolCallId, requestId)>>)

\* The client after construction; options.sessionId sets the session id.
ClientConstructed(optionsSessionId) ==
    /\ messages = <<>>
    /\ handled = <<>>
    /\ sessionId = optionsSessionId
    /\ inTurn = FALSE
    /\ activeAssistantId = 0
    /\ lastFinalizedAssistantId = 0
    /\ idCounter = 0
    /\ currentTurnHidden = "none"
    /\ pendingApproval = NoApproval
    /\ emitted = <<>>
    /\ outbox = <<>>
    /\ resolving = <<>>
    /\ promptRequests = <<>>
    /\ cancelRequests = <<>>
    /\ calls = <<>>
    /\ connectHandlers = <<>>
    /\ sessionRequests = {}
    /\ authUrl = ""
    /\ submitting = 0

ClientInit == ClientConstructed(0)

\* A frame from the transport is handled as soon as it is read, also while
\* continuations of earlier calls wait: ws hands over every frame of one read
\* in the same task, before the microtasks that the handlers have queued.
\* c is the client as the handler leaves it; the dispatch keeps no counter
\* and writes nothing else. The record kept of the frame has its kind, its
\* payload (the text of a chunk, the options of a permission request), whether
\* it came in a replay envelope, the hidden mode under which it was
\* dispatched, and whether the bridge had sent the envelope before.
Handle(c, update, chunk, env) ==
    /\ SetClientState(c)
    /\ handled' = Append(handled, [update |-> update, chunk |-> chunk,
                                   replay |-> env # "live", env |-> env,
                                   hidden |-> OpenEnvelope(ClientState, env).currentTurnHidden,
                                   again |-> FALSE])
    /\ UNCHANGED <<sessionId, promptRequests, cancelRequests, calls,
                   parserVars, bridgeVars, streamVars, transportVars, sessionVars>>

CanHandle == Len(handled) < MaxNotifications

\* 'notification' session/update with agent_message_chunk or agent_thought_chunk,
\* live or as the payload of a bridge/replay envelope.
NotifyChunkOf(kinds, chunks, envelopes) ==
    /\ CanHandle
    /\ \E kind \in kinds, chunk \in chunks, env \in envelopes :
        Handle(handleChunk(OpenEnvelope(ClientState, env), kind, chunk), kind, chunk, env)

NotifyChunk == NotifyChunkOf({"text", "thought"}, Chunks, Envelopes)

\* 'notification' session/update with tool_call, live or replayed.
NotifyToolCallOf(ids, envelopes) ==
    /\ CanHandle
    /\ \E id \in ids, env \in envelopes :
        Handle(handleToolCallUpdate(OpenEnvelope(ClientState, env), id, "in_progress"),
               "tool_call", <<id, "in_progress">>, env)

NotifyToolCall == NotifyToolCallOf({"ls-1"}, Envelopes)

\* 'notification' bridge/structured_event: live it takes the default branch,
\* replayed the last branch of the bridge/replay case; its params have no
\* update, so nothing is dispatched and nothing is emitted.
NotifyStructuredEvent ==
    /\ CanHandle
    /\ \E env \in Envelopes :
        LET c == OpenEnvelope(ClientState, env)
        IN /\ handled' = Append(handled, [update |-> "structured_event", chunk |-> <<>>,
                                          replay |-> env # "live", env |-> env,
                                          hidden |-> c.currentTurnHidden, again |-> FALSE])
           /\ currentTurnHidden' = c.currentTurnHidden
    /\ UNCHANGED <<messages, sessionId, inTurn, activeAssistantId, lastFinalizedAssistantId,
                   idCounter, pendingApproval, emitted, outbox, resolving, promptRequests,
                   cancelRequests, calls, parserVars, bridgeVars, streamVars, transportVars, sessionVars>>

\* handleReplayPrompt(prompt, hiddenMode): a user message for a prompt with text.
handleReplayPrompt(c, text, hiddenMode) ==
    LET id == c.idCounter + 1
        userMsg == NewMessage(id, "user", text, hiddenMode \in {"user", "turn"})
    IN Emit([c EXCEPT !.idCounter = id, !.messages = Append(@, userMsg)],
            <<Ev("message", id, "", 0), Ev("message_update", id, "", 0)>>)

\* 'notification' bridge/replay with a session/prompt payload.
NotifyReplayPromptOf(envelopes) ==
    /\ CanHandle
    /\ \E env \in envelopes :
        Handle(handleReplayPrompt(OpenEnvelope(ClientState, env), <<"a">>, env),
               "prompt", <<"a">>, env)

NotifyReplayPrompt == NotifyReplayPromptOf(Envelopes \ {"live"})

\* The urls that a gemini/authUrl frame carries.
AuthUrls == {"url"}

\* handleAuthUrl(notif): the event it emits; the url is stored in authUrl by
\* the action that handles the frame.
handleAuthUrl(c, url) == Emit(c, <<Ev("auth_required", 0, url, 0)>>)

\* 'notification' gemini/authUrl, live or as the payload of a bridge/replay
\* envelope: the url is stored and auth_required is emitted, whatever the
\* hidden mode.
NotifyAuthUrlOf(envelopes) ==
    /\ CanHandle
    /\ \E url \in AuthUrls, env \in envelopes :
        /\ SetClientState(handleAuthUrl(OpenEnvelope(ClientState, env), url))
        /\ authUrl' = url
        /\ handled' = Append(handled, [update |-> "auth_url", chunk |-> <<url>>,
                                       replay |-> env # "live", env |-> env,
                                       hidden |-> OpenEnvelope(ClientState, env).currentTurnHidden,
                                       again |-> FALSE])
    /\ UNCHANGED <<sessionId, promptRequests, cancelRequests, calls, connectHandlers,
                   sessionRequests, submitting, parserVars, bridgeVars, streamVars,
                   transportVars>>

NotifyAuthUrl == NotifyAuthUrlOf({"live", "undefined"})

\* 'notification' session/update with tool_call_update, live or as the payload
\* of a bridge/replay envelope.
NotifyToolUpdateOf(ids, statuses, envelopes) ==
    /\ CanHandle
    /\ \E id \in ids, status \in statuses, env \in envelopes :
        Handle(handleToolUpdate(OpenEnvelope(ClientState, env), id, status),
               "tool_call_update", <<id, status>>, env)

\* 'notification' session/update with end_of_turn, live or as the payload of a
\* bridge/replay envelope.
NotifyEndOfTurnOf(envelopes) ==
    /\ CanHandle
    /\ \E env \in envelopes :
        Handle(handleEndOfTurn(OpenEnvelope(ClientState, env), "end_turn"), "end_of_turn",
               <<>>, env)

NotifyEndOfTurn == NotifyEndOfTurnOf({"live"})

\* The option lists of the permission requests.
OptionLists ==
    { <<Option("allow", <<"allow", "_once">>), Option("no", <<"reject", "_once">>),
        Option("never", <<"deny", "_always">>)>>,
      <<Option("allow", <<"allow", "_once">>)>> }

\* The id of the next request of the agent: the ids of one agent differ.
NextRequestId == Len(handled) + 1

\* 'method:session/request_permission', live.
NotifyPermissionOf(ids, optionLists) ==
    /\ CanHandle
    /\ \E id \in ids, options \in optionLists :
        Handle(handlePermissionRequest(ClientState, NextRequestId, id, options),
               "request_permission", options, "live")

\* The next continuation of a resolveApproval call runs: after the first await
\* the session/provide_permission notification is sent, after the second the
\* pending approval is cleared and approval_resolved is emitted.
ResolveStep ==
    /\ resolving # <<>>
    /\ LET r == Head(resolving)
       IN IF r.pc = "notify"
          THEN /\ outbox' = Append(outbox, Out("notification", "session/provide_permission",
                                               r.requestId, r.optionId, ""))
               /\ resolving' = Append(Tail(resolving), [r EXCEPT !.pc = "clear"])
               /\ UNCHANGED <<pendingApproval, emitted>>
          ELSE /\ pendingApproval' = NoApproval
               /\ emitted' = Append(emitted, Ev("approval_resolved", 0, "", 0))
               /\ resolving' = Tail(resolving)
               /\ UNCHANGED outbox
    /\ UNCHANGED <<messages, handled, sessionId, inTurn, activeAssistantId,
                   lastFinalizedAssistantId, idCounter, currentTurnHidden, promptRequests,
                   cancelRequests, calls, parserVars, bridgeVars, streamVars, transportVars, sessionVars>>

MaxSockets == 2     \* sockets created by connect()
MaxRequests == 2    \* sendRequest calls

\* The session ids the agent answers session/new with, and those the host
\* sets: 0 is null.
SessionIds == {1, 2}

\* connect(): the state becomes 'connecting'; then a new socket is created
\* and becomes this.ws with the handlers attached, or none is created (no
\* WebSocket constructor is found, or new WS(url) throws), 'error' is emitted
\* and this.ws stays what it was.
connect(created) ==
    /\ tState' = "connecting"
    /\ tSockets' = IF created
                   THEN Append(tSockets, [state |-> "connecting", onclose |-> TRUE])
                   ELSE tSockets

\* sendRequest(method, params), called n times in a row with the sockets
\* given: a call takes the next id; when this.ws, the socket created last, is
\* open, the request is put in pendingRequests and sent, otherwise the promise
\* is rejected with 'WebSocket is not open'.
sendRequest(n, sockets) ==
    LET open == sockets # <<>> /\ sockets[Len(sockets)].state = "open"
        ids == (Len(tPromises) + 1) .. (Len(tPromises) + n)
    IN /\ tPromises' = tPromises \o [i \in 1..n |->
                            IF open THEN [state |-> "pending", settles |-> 0]
                            ELSE [state |-> "rejected: not open", settles |-> 1]]
       /\ tPending' = IF open THEN tPending \cup ids ELSE tPending

\* The promise of request id is settled as resolved, or as rejected.
Resolved(id) == tPromises[id].state = "resolved"
Rejected(id) == tPromises[id].state \notin {"pending", "resolved"}

\* AgentChatClient.connect({ autoSession }): a once('connected') handler is
\* registered and transport.connect() is called.
ClientConnect ==
    /\ Len(calls) < MaxCalls
    /\ \E autoSession \in BOOLEAN : connectHandlers' = Append(connectHandlers, autoSession)
    /\ \E created \in BOOLEAN :
        /\ created => Len(tSockets) < MaxSockets
        /\ connect(created)
    /\ tDisposed' = FALSE
    /\ calls' = Append(calls, "connect")
    /\ UNCHANGED <<messages, handled, sessionId, inTurn, activeAssistantId,
                   lastFinalizedAssistantId, idCounter, currentTurnHidden, pendingApproval,
                   emitted, outbox, resolving, promptRequests, cancelRequests, sessionRequests,
                   authVars, tReconnect, tPending, tPromises, tTimers,
                   parserVars, bridgeVars, streamVars>>

\* The handlers of connect() on 'connected', in the order they were
\* registered, the client's side of them: with a session id each emits
\* session_ready; without one each handler with autoSession runs
\* initializeSession() up to its await, which hands a session/new request to
\* the transport.
onConnected(c, sid, handlers) ==
    IF sid # 0
    THEN Emit(c, [i \in DOMAIN handlers |-> Ev("session_ready", 0, "", 0)])
    ELSE [c EXCEPT !.outbox = @ \o [i \in DOMAIN SelectSeq(handlers, LAMBDA a : a) |->
                                        Out("request", "session/new", 0, "", "")]]

\* initializeSession() after its await, the request resolved: the session id
\* of the result is stored and session_ready is emitted.
InitializeSession ==
    /\ \E r \in sessionRequests :
        /\ Resolved(r)
        /\ sessionRequests' = sessionRequests \ {r}
    /\ \E id \in SessionIds : sessionId' = id
    /\ emitted' = Append(emitted, Ev("session_ready", 0, "", 0))
    /\ UNCHANGED <<messages, handled, inTurn, activeAssistantId,
                   lastFinalizedAssistantId, idCounter, currentTurnHidden, pendingApproval,
                   outbox, resolving, promptRequests, cancelRequests, calls, connectHandlers,
                   authVars, parserVars, bridgeVars, streamVars, transportVars>>

\* initializeSession() after its await, the request rejected: connect() logs
\* 'Session init failed' and rejects.
InitializeSessionFailed ==
    /\ \E r \in sessionRequests :
        /\ Rejected(r)
        /\ sessionRequests' = sessionRequests \ {r}
    /\ UNCHANGED <<messages, handled, sessionId, inTurn, activeAssistantId,
                   lastFinalizedAssistantId, idCounter, currentTurnHidden, pendingApproval,
                   emitted, outbox, resolving, promptRequests, cancelRequests, calls,
                   connectHandlers, authVars, parserVars, bridgeVars, streamVars, transportVars>>

\* setSessionId(sessionId)
SetSessionId ==
    /\ Len(calls) < MaxCalls
    /\ \E id \in {0} \cup SessionIds : sessionId' = id
    /\ calls' = Append(calls, "setSessionId")
    /\ UNCHANGED <<messages, handled, inTurn, activeAssistantId,
                   lastFinalizedAssistantId, idCounter, currentTurnHidden, pendingApproval,
                   emitted, outbox, resolving, promptRequests, cancelRequests, sessionVars,
                   parserVars, bridgeVars, streamVars, transportVars>>

\* sendMessage(text, { hidden }) up to its await of the session/prompt
\* request, the client's side of it.
sendMessage(c, hiddenMode) ==
    LET id == c.idCounter + 1
        userMsg == NewMessage(id, "user", <<"a">>, hiddenMode \in {"user", "turn"})
    IN [c EXCEPT !.currentTurnHidden = hiddenMode,
                 !.idCounter = id,
                 !.messages = Append(@, userMsg),
                 !.emitted = @
                    \o (IF shouldEmitUser(hiddenMode) THEN <<Ev("message", id, "", 0)>> ELSE <<>>)
                    \o (IF shouldEmitAssistant(hiddenMode)
                        THEN <<Ev("turn_started", id, "", 0)>> ELSE <<>>),
                 !.inTurn = TRUE,
                 !.activeAssistantId = 0,
                 !.outbox = Append(@, Out("request", "session/prompt", 0, "", hiddenMode))]

\* The sendMessage calls that wait for the response to their request.
PendingPrompts == {i \in DOMAIN promptRequests : promptRequests[i].state = "sent"}

\* The host calls sendMessage whenever it likes, also while an earlier call
\* waits for its response. The call runs up to its await: the user message,
\* the events, and transport.sendRequest, whose promise the call then awaits.
SendMessageOf(hiddenModes) ==
    /\ sessionId # 0
    /\ Len(calls) < MaxCalls
    /\ \E hiddenMode \in hiddenModes :
        /\ SetClientState(sendMessage(ClientState, hiddenMode))
        /\ promptRequests' = Append(promptRequests,
                                    [hidden |-> hiddenMode, state |-> "sent", stopReason |-> "",
                                     request |-> Len(tPromises) + 1,
                                     message |-> idCounter + 1, overlaps |-> inTurn])
    /\ sendRequest(1, tSockets)
    /\ calls' = Append(calls, "sendMessage")
    /\ UNCHANGED <<handled, sessionId, cancelRequests, sessionVars,
                   parserVars, bridgeVars, streamVars,
                   tSockets, tReconnect, tState, tTimers, tDisposed>>

SendMessage == SendMessageOf(HiddenModes)

\* sendMessage after its await, the promise of its request resolved: with a
\* stopReason in the result the turn is closed ("" is a result without
\* stopReason). hiddenMode is the one the call was made with.
PromptResponse ==
    /\ \E p \in PendingPrompts, stopReason \in {"end_turn", ""} :
        /\ Resolved(promptRequests[p].request)
        /\ promptRequests' = [promptRequests EXCEPT ![p].state = "resolved",
                                                    ![p].stopReason = stopReason]
        /\ IF stopReason = "" THEN UNCHANGED <<messages, idCounter, inTurn, activeAssistantId,
                                               lastFinalizedAssistantId, currentTurnHidden,
                                               pendingApproval, emitted, outbox, resolving>>
           ELSE LET hiddenMode == promptRequests[p].hidden
                    c1 == getOrCreateAssistantMessage(ClientState)
                    n == Len(c1.messages)
                    last == [c1.messages[n] EXCEPT !.stopReason = stopReason]
                    c2 == [c1 EXCEPT !.messages[n] = last]
                    visible == shouldEmitAssistant(hiddenMode)
                    c3 == EmitIf(c2, visible, <<Ev("message_update", last.id, "", 0),
                                                Ev("turn_completed", 0, stopReason, 0)>>)
                    final == visible /\ c3.lastFinalizedAssistantId # last.id
                    c4 == IF final
                          THEN Emit([c3 EXCEPT !.lastFinalizedAssistantId = last.id],
                                    <<Ev("assistant_text_final", last.id, "", 0)>>)
                          ELSE c3
                IN SetClientState([c4 EXCEPT !.inTurn = FALSE, !.currentTurnHidden = "none"])
    /\ UNCHANGED <<handled, sessionId, cancelRequests, calls, sessionVars,
                   parserVars, bridgeVars, streamVars, transportVars>>

\* sendMessage after its await, the promise of its request rejected.
PromptError ==
    /\ \E p \in PendingPrompts :
        /\ Rejected(promptRequests[p].request)
        /\ promptRequests' = [promptRequests EXCEPT ![p].state = "rejected"]
        /\ emitted' = IF shouldEmitAssistant(promptRequests[p].hidden)
                      THEN Append(emitted, Ev("turn_completed", 0, "error", 0)) ELSE emitted
    /\ inTurn' = FALSE
    /\ currentTurnHidden' = "none"
    /\ UNCHANGED <<messages, handled, sessionId, activeAssistantId,
                   lastFinalizedAssistantId, idCounter, pendingApproval, outbox, resolving,
                   cancelRequests, calls, sessionVars,
                   parserVars, bridgeVars, streamVars, transportVars>>

\* The cancel() calls that wait for the response to their request.
PendingCancels == {i \in DOMAIN cancelRequests : cancelRequests[i].state = "sent"}

\* cancel() up to its await of the session/cancel request, transport.sendRequest
\* included; the host calls it whenever it likes.
Cancel ==
    /\ sessionId # 0
    /\ Len(calls) < MaxCalls
    /\ outbox' = Append(outbox, Out("request", "session/cancel", 0, "", ""))
    /\ cancelRequests' = Append(cancelRequests,
                                [state |-> "sent", request |-> Len(tPromises) + 1])
    /\ sendRequest(1, tSockets)
    /\ calls' = Append(calls, "cancel")
    /\ UNCHANGED <<messages, handled, sessionId, inTurn, activeAssistantId,
                   lastFinalizedAssistantId, idCounter, currentTurnHidden, pendingApproval,
                   emitted, resolving, promptRequests, sessionVars,
                   parserVars, bridgeVars, streamVars,
                   tSockets, tReconnect, tState, tTimers, tDisposed>>

\* cancel() after its await, the promise of its request resolved.
CancelResolved ==
    /\ \E i \in PendingCancels :
        /\ Resolved(cancelRequests[i].request)
        /\ cancelRequests' = [cancelRequests EXCEPT ![i].state = "resolved"]
    /\ emitted' = Append(emitted, Ev("turn_completed", 0, "canceled", 0))
    /\ inTurn' = FALSE
    /\ UNCHANGED <<messages, handled, sessionId, activeAssistantId,
                   lastFinalizedAssistantId, idCounter, currentTurnHidden, pendingApproval,
                   outbox, resolving, promptRequests, calls, sessionVars,
                   parserVars, bridgeVars, streamVars, transportVars>>

\* A failed cancel request ends the turn like an answered one.
CancelRejectedEndsTurn ==
    /\ \E i \in PendingCancels :
        /\ Rejected(cancelRequests[i].request)
        /\ cancelRequests' = [cancelRequests EXCEPT ![i].state = "rejected"]
    /\ emitted' = Append(emitted, Ev("turn_completed", 0, "canceled", 0))
    /\ inTurn' = FALSE
    /\ UNCHANGED <<messages, handled, sessionId, activeAssistantId,
                   lastFinalizedAssistantId, idCounter, currentTurnHidden, pendingApproval,
                   outbox, resolving, promptRequests, calls, sessionVars,
                   parserVars, bridgeVars, streamVars, transportVars>>

\* cancel() after its await, the promise of its request rejected: the error
\* is logged.
CancelRejected ==
    /\ \E i \in PendingCancels :
        /\ Rejected(cancelRequests[i].request)
        /\ cancelRequests' = [cancelRequests EXCEPT ![i].state = "rejected"]
    /\ UNCHANGED <<messages, handled, sessionId, inTurn, activeAssistantId,
                   lastFinalizedAssistantId, idCounter, currentTurnHidden, pendingApproval,
                   emitted, outbox, resolving, promptRequests, calls, sessionVars,
                   parserVars, bridgeVars, streamVars, transportVars>>

\* The message lists the host hands to prependMessages: none, a user message,
\* a hidden user message.
PrependLists ==
    { <<>>, <<NewMessage(101, "user", <<"a">>, FALSE)>>, <<NewMessage(101, "user", <<"a">>, TRUE)>> }

\* prependMessages(messages)
prependMessages(c, msgs) ==
    IF msgs = <<>> THEN c
    ELSE LET all == msgs \o c.messages
             last == all[Len(all)]
         IN EmitIf(Emit([c EXCEPT !.messages = all],
                        <<Ev("messages_replayed", 0, "", Len(msgs))>>),
                   ~last.hidden, <<Ev("message_update", last.id, "", 0)>>)

PrependMessages ==
    /\ Len(calls) < MaxCalls
    /\ \E msgs \in PrependLists : SetClientState(prependMessages(ClientState, msgs))
    /\ calls' = Append(calls, "prependMessages")
    /\ UNCHANGED <<handled, sessionId, promptRequests, cancelRequests, sessionVars,
                   parserVars, bridgeVars, streamVars, transportVars>>

\* AcpWebSocketTransport.dispose(): the handler of the socket is detached and
\* pendingRequests is cleared; no promise is settled.
dispose ==
    /\ tDisposed' = TRUE
    /\ tReconnect' = FALSE
    /\ tSockets' = IF tSockets = <<>> THEN tSockets
                   ELSE [tSockets EXCEPT ![Len(tSockets)] = [state |-> "closed", onclose |-> FALSE]]
    /\ tPending' = {}
    /\ tState' = "disconnected"

\* AgentChatClient.dispose() and disconnect(): the transport is disposed and
\* the messages are dropped; the requests in flight keep their continuations.
ClientDispose ==
    /\ Len(calls) < MaxCalls
    /\ dispose
    /\ messages' = <<>>
    /\ calls' = Append(calls, "dispose")
    /\ UNCHANGED <<handled, sessionId, inTurn, activeAssistantId,
                   lastFinalizedAssistantId, idCounter, currentTurnHidden, pendingApproval,
                   emitted, outbox, resolving, promptRequests, cancelRequests, sessionVars,
                   tPromises, tTimers, parserVars, bridgeVars, streamVars>>

\* approveTool(optionId) up to the first await of resolveApproval; without a
\* pending approval the call returns at once.
ApproveTool ==
    /\ Len(calls) < MaxCalls
    /\ calls' = Append(calls, "approveTool")
    /\ IF pendingApproval = NoApproval
       THEN SetClientState(ClientState)
       ELSE \E optionId \in {"allow", "no"} :
               SetClientState(resolveApproval(ClientState, pendingApproval.requestId, optionId))
    /\ UNCHANGED <<handled, sessionId, promptRequests, cancelRequests,
                   parserVars, bridgeVars, streamVars, transportVars, sessionVars>>

\* submitAuthCode(code) up to its await: the notification gemini/submitAuthCode
\* is handed to the transport. The call tests nothing, neither the session id
\* nor authUrl.
SubmitAuthCode ==
    /\ Len(calls) < MaxCalls
    /\ calls' = Append(calls, "submitAuthCode")
    /\ outbox' = Append(outbox, Out("notification", "gemini/submitAuthCode", 0, "", ""))
    /\ submitting' = submitting + 1
    /\ UNCHANGED <<messages, handled, sessionId, inTurn, activeAssistantId,
                   lastFinalizedAssistantId, idCounter, currentTurnHidden, pendingApproval,
                   emitted, resolving, promptRequests, cancelRequests, connectHandlers,
                   sessionRequests, authUrl, parserVars, bridgeVars, streamVars,
                   transportVars>>

\* submitAuthCode(code) after its await: authUrl is cleared and auth_resolved
\* is emitted, whether or not the notification was sent and whatever the
\* bridge made of the code.
SubmitAuthCodeResolved ==
    /\ submitting > 0
    /\ submitting' = submitting - 1
    /\ authUrl' = ""
    /\ emitted' = Append(emitted, Ev("auth_resolved", 0, "", 0))
    /\ UNCHANGED <<messages, handled, sessionId, inTurn, activeAssistantId,
                   lastFinalizedAssistantId, idCounter, currentTurnHidden, pendingApproval,
                   outbox, resolving, promptRequests, cancelRequests, calls, connectHandlers,
                   sessionRequests, parserVars, bridgeVars, streamVars, transportVars>>

(***************************************************************************)
(* AcpWebSocketTransport                                                   *)
(***************************************************************************)

\* The state after construction with the option `reconnect`.
TransportConstructed(reconnect) ==
    /\ tSockets = <<>>
    /\ tReconnect = reconnect
    /\ tState = "disconnected"
    /\ tPending = {}
    /\ tPromises = <<>>
    /\ tTimers = 0
    /\ tDisposed = FALSE

TransportIdle == TransportConstructed(TRUE)

\* The transport of a client after connect(): its first socket is open.
TransportConnected ==
    /\ tSockets = <<[state |-> "open", onclose |-> TRUE]>>
    /\ tReconnect = TRUE
    /\ tState = "connected"
    /\ tPending = {}
    /\ tPromises = <<>>
    /\ tTimers = 0
    /\ tDisposed = FALSE

\* A call of resolve or reject of the promise of a request; a promise keeps
\* its first settlement.
Settle(p, outcome) ==
    [state |-> IF p.state = "pending" THEN outcome ELSE p.state, settles |-> p.settles + 1]

\* for (const [, pending] of this.pendingRequests) pending.reject(err)
RejectAll(promises, ids) ==
    [id \in DOMAIN promises |->
        IF id \in ids THEN Settle(promises[id], "rejected: closed") ELSE promises[id]]

\* The host calls connect() on the transport, whatever its state.
TransportConnect ==
    /\ \E created \in BOOLEAN :
        /\ created => Len(tSockets) < MaxSockets
        /\ connect(created)
    /\ tDisposed' = FALSE
    /\ UNCHANGED <<parserVars, bridgeVars, streamVars, clientVars, tReconnect, tPending, tPromises, tTimers>>

\* ws.onopen of a socket created by connect(): 'connected' is emitted and the
\* handlers that AgentChatClient.connect() registered run once.
SocketOpen ==
    /\ \E i \in DOMAIN tSockets :
        /\ tSockets[i].state = "connecting"
        /\ tSockets' = [tSockets EXCEPT ![i].state = "open"]
    /\ tState' = "connected"
    /\ SetClientState(onConnected(ClientState, sessionId, connectHandlers))
    /\ LET n == IF sessionId # 0 THEN 0 ELSE Len(SelectSeq(connectHandlers, LAMBDA a : a))
       IN /\ sendRequest(n, tSockets')
          /\ sessionRequests' = sessionRequests \cup (Len(tPromises) + 1 .. Len(tPromises) + n)
    /\ connectHandlers' = <<>>
    /\ UNCHANGED <<handled, sessionId, promptRequests, cancelRequests, calls, authVars,
                   parserVars, bridgeVars, streamVars, tReconnect, tTimers, tDisposed>>

\* A socket closes (the server or the network ends it) and its ws.onclose,
\* when still attached, runs.
SocketClose ==
    /\ \E i \in DOMAIN tSockets :
        /\ tSockets[i].state \in {"connecting", "open"}
        /\ tSockets' = [tSockets EXCEPT ![i].state = "closed"]
        /\ IF tSockets[i].onclose
           THEN /\ tPromises' = RejectAll(tPromises, tPending)
                /\ tPending' = {}
                /\ tState' = IF tReconnect THEN "reconnecting" ELSE "disconnected"
                /\ tTimers' = IF tReconnect THEN tTimers + 1 ELSE tTimers
           ELSE UNCHANGED <<tPromises, tPending, tState, tTimers>>
    /\ UNCHANGED <<parserVars, bridgeVars, streamVars, clientVars, tReconnect, tDisposed>>

\* The timer set by onclose fires: () => this.connect()
ReconnectTimer ==
    /\ tTimers > 0
    /\ tTimers' = tTimers - 1
    /\ \E created \in BOOLEAN :
        /\ created => Len(tSockets) < MaxSockets
        /\ connect(created)
    /\ UNCHANGED <<parserVars, bridgeVars, streamVars, clientVars, tReconnect, tPending, tPromises, tDisposed>>

\* The host calls sendRequest(method, params) on the transport.
TransportSendRequest ==
    /\ Len(tPromises) < MaxRequests
    /\ sendRequest(1, tSockets)
    /\ UNCHANGED <<parserVars, bridgeVars, streamVars, clientVars, tSockets, tReconnect, tState, tTimers, tDisposed>>

\* handleMessage with the response to a request, a result or an error, read
\* from any socket that is open.
TransportResponse ==
    /\ \E i \in DOMAIN tSockets : tSockets[i].state = "open"
    /\ \E id \in 1..Len(tPromises), outcome \in {"resolved", "rejected: error"} :
        /\ tPending' = tPending \ {id}
        /\ tPromises' = IF id \in tPending
                        THEN [tPromises EXCEPT ![id] = Settle(@, outcome)]
                        ELSE tPromises
    /\ UNCHANGED <<parserVars, bridgeVars, streamVars, clientVars, tSockets, tReconnect, tState, tTimers, tDisposed>>

\* The host calls dispose() on the transport.
TransportDispose ==
    /\ dispose
    /\ UNCHANGED <<parserVars, bridgeVars, streamVars, clientVars, tPromises, tTimers>>

TransportNext ==
    \/ TransportConnect \/ SocketOpen \/ SocketClose \/ ReconnectTimer
    \/ TransportSendRequest \/ TransportResponse \/ TransportDispose

ClientNext == NotifyChunk \/ NotifyToolCall \/ NotifyStructuredEvent \/ NotifyReplayPrompt

StreamNext == Extract

(***************************************************************************)
(* Specifications                                                          *)
(***************************************************************************)
\* Connections and traffic of a bridge whose child stays up.
BridgeNext ==
    \/ Start \/ Tick \/ Connect \/ ClientPrompt \/ GeminiFrame

\* Traffic on a bridge with a nearly full ring, with child exits and restarts.
RingNext ==
    \/ Tick \/ ProcessExit \/ RestartTimer \/ RestartTimerThrows \/ ClientPrompt \/ GeminiFrame

\* The authentication exchange and client disconnects.
AuthNext ==
    \/ Start \/ Tick \/ Connect \/ Disconnect \/ ProcessExit
    \/ ClientSubmitAuthCode \/ GeminiAuthUrl

\* Client frames arriving at the auth gate.
GateNext ==
    \/ Start \/ Connect \/ ProcessExit \/ RestartTimer
    \/ GeminiAuthUrl \/ ClientAuthenticate \/ ClientSubmitAuthCode
    \/ ClientPrompt \/ ClientForward \/ ClientBlocked \/ ClientNotJson \/ ClientNotReady

\* The parser at rest, for the specifications of the other components.
\* new SysTagParser({mode}) with nothing consumed
ParserConstructed(m) ==
    /\ mode = m
    /\ buffer = <<>>
    /\ captureBuffer = <<>>
    /\ activeTag = "null"
    /\ inText = <<>>
    /\ inPos = 0
    /\ prevPos = 0
    /\ outText = <<>>
    /\ outEvents = <<>>
    /\ lastResult = [output |-> <<>>, events |-> <<>>, parts |-> <<>>]
    /\ flushed = FALSE
    /\ transformLog = <<>>

ParserIdle == ParserConstructed("event")

InitParser == ParserInit /\ BridgeIdle /\ StreamIdle /\ TransportIdle /\ ClientInit
InitBridge == ParserIdle /\ BridgeIdle /\ StreamIdle /\ TransportIdle /\ ClientInit
InitRing == ParserIdle /\ BridgeAlmostFull /\ StreamIdle /\ TransportIdle /\ ClientInit
InitStream == ParserIdle /\ BridgeIdle /\ StreamInit /\ TransportIdle /\ ClientInit
InitClient == ParserIdle /\ BridgeIdle /\ StreamIdle /\ TransportIdle /\ ClientInit

SpecParser == InitParser /\ [][ParserNext]_vars

\* The text fed to a parser whose mode changes: a closed region followed by
\* text and a second end tag.
ModeTexts == { jsonStart \o <<"1">> \o jsonEnd \o <<"x">> \o jsonEnd }

InitParserMode ==
    /\ mode \in Modes
    /\ buffer = <<>>
    /\ captureBuffer = <<>>
    /\ activeTag = "null"
    /\ inText \in ModeTexts
    /\ inPos = 0
    /\ prevPos = 0
    /\ outText = <<>>
    /\ outEvents = <<>>
    /\ lastResult = [output |-> <<>>, events |-> <<>>, parts |-> <<>>]
    /\ flushed = FALSE
    /\ transformLog = <<>>
    /\ BridgeIdle /\ StreamIdle /\ TransportIdle /\ ClientInit

SpecParserMode == InitParserMode /\ [][ParserModeNext]_vars

SpecBridge == InitBridge /\ [][BridgeNext]_vars

SpecRing == InitRing /\ [][RingNext]_vars

SpecAuth == InitBridge /\ [][AuthNext]_vars

\* The file tools of the child.
FsNext == Start \/ GeminiFsRead \/ GeminiFsWrite

SpecFs == InitBridge /\ [][FsNext]_vars

SpecGate == InitBridge /\ [][GateNext]_vars

SpecStream == InitStream /\ [][StreamNext]_vars

SpecClient == InitClient /\ [][ClientNext]_vars

\* The transport, constructed with reconnect enabled or disabled.
InitTransport ==
    /\ ParserIdle /\ BridgeIdle /\ StreamIdle /\ ClientInit
    /\ \E reconnect \in BOOLEAN : TransportConstructed(reconnect)

SpecTransport == InitTransport /\ [][TransportNext]_vars

\* ---- AgentChatClient: tool calls of a visible conversation ----
ToolIds == {"ls-1", "rm-2"}

ToolPermission == NotifyPermissionOf(ToolIds, OptionLists)
ToolCallStarted == NotifyToolCallOf(ToolIds, {"live"})
ToolCallUpdated == NotifyToolUpdateOf(ToolIds, {"", "completed"}, {"live", "undefined"})

ToolsNext == ToolPermission \/ ToolCallStarted \/ ToolCallUpdated

InitTools == ParserIdle /\ BridgeIdle /\ StreamIdle /\ TransportIdle /\ ClientInit

SpecTools == InitTools /\ [][ToolsNext]_vars

\* ---- AgentChatClient: the turns opened by sendMessage ----
MaxTurnUpdates == 2     \* session updates handled in the specifications of turns

TurnChunk ==
    /\ Len(handled) < MaxTurnUpdates
    /\ NotifyChunkOf({"text"}, {<<"a">>}, {"live"})
TurnToolCall ==
    /\ Len(handled) < MaxTurnUpdates
    /\ NotifyToolCallOf({"ls-1"}, {"live"})
TurnEnd ==
    /\ Len(handled) < MaxTurnUpdates
    /\ NotifyEndOfTurn

\* Turns that the agent ends.
TurnNext ==
    \/ SendMessage \/ TurnChunk \/ TurnToolCall \/ TurnEnd
    \/ TransportResponse \/ PromptResponse \/ PromptError

\* Turns that the host cancels.
CancelNext ==
    \/ SendMessage \/ TurnChunk \/ TurnEnd \/ TransportResponse \/ PromptResponse
    \/ Cancel \/ CancelResolved \/ CancelRejected

\* A client in a session: connect({ autoSession: false }) has completed and the
\* host has set the session id; calls and events are those made from here on.
InitTurn == ParserIdle /\ BridgeIdle /\ StreamIdle /\ TransportConnected /\ ClientConstructed(1)
InitCancel == ParserIdle /\ BridgeIdle /\ StreamIdle /\ TransportConnected /\ ClientConstructed(1)

SpecTurn == InitTurn /\ [][TurnNext]_vars

SpecCancel == InitCancel /\ [][CancelNext]_vars

\* ---- AgentChatClient: the calls of the host around the session ----
SessionNext ==
    \/ ClientConnect \/ SocketOpen \/ SocketClose \/ ReconnectTimer
    \/ InitializeSession \/ InitializeSessionFailed \/ SetSessionId
    \/ SendMessage \/ TurnChunk \/ TransportResponse \/ PromptResponse \/ PromptError
    \/ PrependMessages \/ ClientDispose
    \/ NotifyAuthUrl \/ SubmitAuthCode \/ SubmitAuthCodeResolved

\* A client constructed without and with options.sessionId.
InitSession ==
    /\ ParserIdle /\ BridgeIdle /\ StreamIdle /\ TransportIdle
    /\ \E id \in {0, 1} : ClientConstructed(id)

SpecSession == InitSession /\ [][SessionNext]_vars

\* ---- AgentChatClient: permission requests and their resolution ----
ApprovalRequest ==
    /\ Len(handled) < MaxTurnUpdates
    /\ NotifyPermissionOf({"ls-1"}, OptionLists)

ApprovalNext ==
    \/ SendMessage \/ ApprovalRequest \/ TurnEnd \/ ApproveTool \/ ResolveStep

InitApproval == ParserIdle /\ BridgeIdle /\ StreamIdle /\ TransportConnected /\ ClientConstructed(1)

SpecApproval == InitApproval /\ [][ApprovalNext]_vars

\* ---- AgentChatClient: the updates of a turn sent with hidden assistant or turn ----
HiddenSend == SendMessageOf({"assistant", "turn"})
HiddenChunk == PendingPrompts # {} /\ NotifyChunkOf({"text", "thought"}, Chunks, {"live"})
HiddenToolCall == PendingPrompts # {} /\ NotifyToolCallOf(ToolIds, {"live"})
HiddenToolUpdate == PendingPrompts # {} /\ NotifyToolUpdateOf(ToolIds, {"", "completed"}, {"live"})

HiddenNext == HiddenSend \/ HiddenChunk \/ HiddenToolCall \/ HiddenToolUpdate

SpecHidden == InitTurn /\ [][HiddenNext]_vars

\* ---- AgentChatClient: intake of a replayed history ----
\* The __hiddenMode of a replayed frame: the mode its turn was opened with,
\* "undefined" when the prompt carried none.
ReplayModes == {"undefined"} \cup HiddenModes

ReplayedPrompt == NotifyReplayPromptOf(ReplayModes)
ReplayedChunk == NotifyChunkOf({"text"}, {<<"a">>}, ReplayModes)
ReplayedToolCall == NotifyToolCallOf({"ls-1"}, ReplayModes)
ReplayedToolUpdate == NotifyToolUpdateOf({"ls-1"}, {"completed"}, ReplayModes)

ReplayNext == ReplayedPrompt \/ ReplayedChunk \/ ReplayedToolCall \/ ReplayedToolUpdate

SpecReplay == InitTurn /\ [][ReplayNext]_vars

\* ---- GeminiBridge with createSysTagTransform as its outgoingTransform ----
MaxOutputs == 2     \* frames of the child passed through the transform

\* session/update agent_message_chunk with params.update.content.text = text
ChunkFrame(text) ==
    [method |-> "session/update", update |-> "agent_message_chunk", hidden |-> "",
     text |-> text]

\* The JSON-RPC response that ends a turn: { result: { stopReason } }
StopResponse ==
    [method |-> "response", update |-> "", hidden |-> "", stopReason |-> "end_turn"]

EndOfTurn == Frame("session/update", "end_of_turn", "")

\* makeStructuredEvent(evt) with the default structuredEventMethod
makeStructuredEvent(evt) ==
    [method |-> "bridge/structured_event", update |-> "", hidden |-> "",
     params |-> [type |-> evt.type, payload |-> evt.payload, raw |-> evt.raw,
                 error |-> evt.error]]

\* The chunk texts the child writes: text around a closed region, a region
\* opened and not closed, the end of a region, a region whose payload does
\* not parse, a delimiter fragment, and two adjacent regions.
TransformTexts ==
    { <<"x">> \o jsonStart \o <<" ", "1">> \o jsonEnd \o <<"x">>,
      jsonStart \o <<" ", "1">>,
      jsonEnd \o <<"x">>,
      <<"x">> \o jsonStart \o <<"x">> \o jsonEnd,
      <<"x", "<">>,
      blockStart \o <<"x">> \o blockEnd \o jsonStart \o <<"1">> \o jsonEnd }

TransformInputs ==
    {ChunkFrame(t) : t \in TransformTexts}
    \cup { StopResponse, EndOfTurn,
           Frame("session/update", "tool_call", ""),
           Frame("session/request_permission", "", ""),
           Frame("response", "", "") }

outMessagesEventsFirst(msg, parts) ==
    LET texts == SelectSeq(parts, LAMBDA p : p.kind = "text" /\ p.text # <<>>)
        events == SelectSeq(parts, LAMBDA p : p.kind # "text")
    IN [i \in 1..Len(events) |-> makeStructuredEvent(events[i].event)]
       \o [i \in 1..Len(texts) |-> [msg EXCEPT !.text = texts[i].text]]

\* The outMessages loop: one frame per part, in the order of the parts; a text
\* part becomes a copy of msg carrying that text (empty ones are skipped), an
\* event part a structured event.
outMessages(msg, parts) ==
    LET kept == SelectSeq(parts, LAMBDA p : p.kind # "text" \/ p.text # <<>>)
    IN [i \in 1..Len(kept) |->
          IF kept[i].kind = "text" THEN [msg EXCEPT !.text = kept[i].text]
          ELSE makeStructuredEvent(kept[i].event)]

forwardStopOnly(msg, f, flushForward) ==
    [state |-> f.state, forward |-> <<msg>>, extra |-> <<>>]

\* What the transform returns for a stop-of-turn frame msg after f =
\* parser.flush(): msg alone when the flush output is empty, else flushForward
\* (the chunk built from the flush output) with msg as the one extra.
forwardFlush(msg, f, flushForward) ==
    IF f.result.output = <<>>
    THEN [state |-> f.state, forward |-> <<msg>>, extra |-> <<>>]
    ELSE [state |-> f.state, forward |-> <<flushForward>>, extra |-> <<msg>>]

\* The function returned by createSysTagTransform, on parser state ps: the new
\* parser state, `forward` (<<>> for null, else one frame) and `extra`.
sysTagTransform(ps, msg) ==
    IF ps.mode = "raw" THEN [state |-> ps, forward |-> <<msg>>, extra |-> <<>>]
    ELSE IF "stopReason" \in DOMAIN msg
    THEN forwardFlush(msg, flush(ps), ChunkFrame(flush(ps).result.output))
    ELSE IF msg.update = ""
    THEN [state |-> ps, forward |-> <<msg>>, extra |-> <<>>]
    ELSE IF msg.update = "end_of_turn"
    THEN forwardFlush(msg, flush(ps),
                      [text |-> flush(ps).result.output]
                      @@ [msg EXCEPT !.update = "agent_message_chunk"])
    ELSE IF msg.update # "agent_message_chunk"
    THEN [state |-> ps, forward |-> <<msg>>, extra |-> <<>>]
    ELSE IF "text" \notin DOMAIN msg \/ msg.text = <<>>
    THEN [state |-> ps, forward |-> <<msg>>, extra |-> <<>>]
    ELSE LET r == consume(ps, msg.text)
             out == outMessages(msg, r.result.parts)
         IN IF out = <<>>
            THEN [state |-> r.state, forward |-> <<>>, extra |-> <<>>]
            ELSE [state |-> r.state, forward |-> <<Head(out)>>, extra |-> Tail(out)]

\* for (const item of extra) this.broadcastPayload(item, true)
RECURSIVE broadcastExtra(_, _, _, _, _, _)
broadcastExtra(b, extra, t, modes, time, listening) ==
    IF extra = <<>> THEN b
    ELSE broadcastExtra(broadcastPayload(b.history, b.clients, Head(extra), TRUE, t, modes,
                                         time, listening),
                        Tail(extra), t, modes, time, listening)

\* broadcast(data) with an outgoing transform: the forward frame, if any, by
\* broadcastPayload(forward), then the extras.
broadcast(h, cl, tr, t, modes, time, listening) ==
    broadcastExtra(IF tr.forward # <<>>
                   THEN broadcastPayload(h, cl, tr.forward[1], FALSE, t, modes, time, listening)
                   ELSE [history |-> h, clients |-> cl],
                   tr.extra, t, modes, time, listening)

\* handleGeminiOutput with a JSON-RPC frame of the child, broadcast through
\* the transform.
GeminiFrameTransformed ==
    /\ Len(transformLog) < MaxOutputs
    /\ \E child \in DOMAIN children, msg \in TransformInputs :
       \E tr \in {sysTagTransform(ParserState, msg)} :
       \E b \in {broadcast(history, clients, tr, turnId, turnHiddenModes, now, wss)} :
       \E cp \in {checkpointTrigger(currentTurnModifiedFiles, checkpoints,
                                    tr.forward \o tr.extra, wss, turnId, child)} :
           /\ currentTurnModifiedFiles' = cp.files
           /\ checkpoints' = cp.checkpoints
           /\ buffer' = tr.state.buffer
           /\ captureBuffer' = tr.state.captureBuffer
           /\ activeTag' = tr.state.activeTag
           /\ history' = b.history
           /\ clients' = b.clients
           /\ transformLog' = Append(transformLog,
                                [msg |-> msg, before |-> ParserState, after |-> tr.state,
                                 forward |-> tr.forward, extra |-> tr.extra])
    /\ UNCHANGED <<optSessionId, restartVars, mode, inText, inPos, prevPos, outText, outEvents, lastResult, flushed,
                   streamVars, transportVars, clientVars, fsRequests, fsCalls, fsWritten, lines,
                   received, wss,
                   geminiProcess, spawnCount, isAuthPending, pendingAuthUrl, turnId,
                   turnHiddenModes, now, stdin, turnAtSpawn, steps>>

TransformNext == Disconnect \/ ClientPrompt \/ GeminiFrameTransformed

\* The bridge after start() and the connection of client 1 without query
\* parameters: the listener is live, the first child runs, the ring is empty.
BridgeServingWith(hostSession) ==
    /\ wss = 1
    /\ geminiProcess = 1
    /\ spawnCount = 1
    /\ isAuthPending = FALSE
    /\ pendingAuthUrl = FALSE
    /\ history = <<>>
    /\ turnId = 0
    /\ turnHiddenModes = <<>>
    /\ now = 1
    /\ stdin = <<>>
    /\ clients = [c \in Clients |-> IF c = 1 THEN [NoClient EXCEPT !.open = TRUE, !.listener = 1]
                                     ELSE NoClient]
    /\ turnAtSpawn = 0
    /\ steps = 0
    /\ received = <<>>
    /\ fsRequests = <<>>
    /\ fsCalls = <<>>
    /\ currentTurnModifiedFiles = {}
    /\ checkpoints = <<>>
    /\ fsWritten = <<>>
    /\ lines = <<>>
    /\ optSessionId = hostSession
    /\ acpSessionId = 0
    /\ restartTimers = 0
    /\ spawnFailed = FALSE
    /\ children = (1 :> "running")
    /\ listeners = <<TRUE>>

\* The same bridge constructed without options.sessionId.
BridgeServing == BridgeServingWith(FALSE)

InitTransform ==
    /\ \E m \in Modes : ParserConstructed(m)
    /\ BridgeServing /\ StreamIdle /\ TransportIdle /\ ClientInit

SpecTransform == InitTransform /\ [][TransformNext]_vars

\* ---- GeminiBridge: exit of the child and the restart timer ----
\* handleGeminiOutput with a response that carries result.sessionId: the frame
\* is broadcast and the session id is kept.
GeminiSessionReady ==
    /\ steps < MaxSteps
    /\ LET b == broadcastPayload(history, clients, Frame("response", "", ""), FALSE, turnId,
                                 turnHiddenModes, now, wss)
       IN /\ history' = b.history
          /\ clients' = b.clients
    /\ \E child \in DOMAIN children : acpSessionId' = child
    /\ steps' = steps + 1
    /\ UNCHANGED <<listeners, restartTimers, spawnFailed, children, parserVars, streamVars, transportVars,
                   clientVars, fsVars, received, wss, geminiProcess, spawnCount,
                   isAuthPending, pendingAuthUrl, turnId, turnHiddenModes, now, stdin,
                   turnAtSpawn>>

RestartNext ==
    \/ Start
    \/ StartThrows
    \/ Connect
    \/ GeminiSessionReady
    \/ GeminiAuthUrl
    \/ ProcessExit
    \/ RestartTimer
    \/ RestartTimerThrows

\* A timer that is set fires: the callback runs, whatever spawn then does.
TimerFires == RestartTimer \/ RestartTimerThrows

SpecRestart == InitBridge /\ [][RestartNext]_vars /\ WF_vars(TimerFires)

\* ---- GeminiBridge: start(), stop(), exits and restart timers ----
\* stop(): clear the listener reference and close it, kill the child and
\* clear its reference. Closing the listener leaves the accepted sockets open;
\* the killed child's 'close' fires later (ProcessExit).
Stop ==
    /\ wss # 0
    /\ wss' = 0
    /\ listeners' = [listeners EXCEPT ![wss] = FALSE]
    /\ geminiProcess' = 0
    /\ children' = [p \in DOMAIN children |->
                      IF p = geminiProcess THEN "killed" ELSE children[p]]
    /\ UNCHANGED <<acpSessionId, restartTimers, spawnFailed, parserVars, streamVars,
                   transportVars, clientVars, fsVars, received, spawnCount, isAuthPending,
                   pendingAuthUrl, history, turnId, turnHiddenModes, now, stdin, clients,
                   turnAtSpawn, steps>>

RestartTimerUnchecked ==
    /\ restartTimers > 0
    /\ wss = 0
    /\ spawnCount < MaxSpawns
    /\ restartTimers' = restartTimers - 1
    /\ geminiProcess' = spawnCount + 1
    /\ spawnCount' = spawnCount + 1
    /\ isAuthPending' = FALSE
    /\ spawnFailed' = FALSE
    /\ children' = children @@ (spawnCount + 1 :> "running")
    /\ turnAtSpawn' = turnId
    /\ UNCHANGED <<listeners, acpSessionId, parserVars, streamVars, transportVars, clientVars, fsVars,
                   received, wss, pendingAuthUrl, history, turnId, turnHiddenModes, now,
                   stdin, clients, steps>>

\* The restart timer fires after stop(): if (this.wss) is false and the
\* callback does nothing.
RestartTimerStopped ==
    /\ restartTimers > 0
    /\ wss = 0
    /\ restartTimers' = restartTimers - 1
    /\ UNCHANGED <<listeners, acpSessionId, spawnFailed, children, parserVars, streamVars,
                   transportVars, clientVars, fsVars, received, wss, geminiProcess,
                   spawnCount, isAuthPending, pendingAuthUrl, history, turnId,
                   turnHiddenModes, now, stdin, clients, turnAtSpawn, steps>>

SupervisorNext ==
    \/ Start
    \/ StartThrows
    \/ Stop
    \/ ConnectPlain
    \/ ClientPrompt
    \/ GeminiFrame
    \/ ProcessExit
    \/ RestartTimer
    \/ RestartTimerThrows
    \/ RestartTimerStopped

SpecSupervisor == InitBridge /\ [][SupervisorNext]_vars

\* The same without client frames.
StopNext ==
    \/ Start
    \/ Stop
    \/ ConnectPlain
    \/ GeminiFrame
    \/ ProcessExit
    \/ RestartTimer
    \/ RestartTimerThrows
    \/ RestartTimerStopped

SpecStop == InitBridge /\ [][StopNext]_vars

(***************************************************************************)
(* GeminiBridge: write tracking and the checkpoint trigger                 *)
(***************************************************************************)
\* The frames of the child around the end of a turn: the two updates that
\* trigger the checkpoint, the JSON-RPC response of session/prompt, a chunk.
TurnFrames == { Frame("session/update", "end_of_turn", ""),
                Frame("session/update", "response.completed", ""),
                Frame("response", "", ""),
                Frame("session/update", "agent_message_chunk", "") }

GeminiTurnFrame == GeminiFrameOf(TurnFrames)

CheckpointNext ==
    \/ ClientPrompt
    \/ GeminiFsWrite
    \/ GeminiTurnFrame
    \/ CheckpointReply
    \/ CheckpointJson
    \/ ProcessExit
    \/ RestartTimer
    \/ RestartTimerThrows

InitServing == ParserIdle /\ BridgeServing /\ StreamIdle /\ TransportIdle /\ ClientInit

\* The serving bridge, constructed with or without options.sessionId.
InitCheckpoint ==
    /\ ParserIdle /\ StreamIdle /\ TransportIdle /\ ClientInit
    /\ \E hostSession \in BOOLEAN : BridgeServingWith(hostSession)

SpecCheckpoint == InitCheckpoint /\ [][CheckpointNext]_vars

(***************************************************************************)
(* GeminiBridge: handleGeminiOutput, one stdout line at a time             *)
(***************************************************************************)
\* A stdout line: kind is "blank" (nothing but white space), "json" (the
\* trimmed line starts with { and JSON.parse succeeds, giving frame),
\* "badjson" (starts with { and JSON.parse throws) or "text"; url tells
\* whether the line, escape sequences removed, matches the OAuth URL
\* patterns, which it can do inside a JSON string as well.
StdoutLine(kind, url) ==
    [kind |-> kind, url |-> url, frame |-> Frame("session/update", "agent_message_chunk", "")]

StdoutLines ==
    { StdoutLine("blank", FALSE) } \cup
    { StdoutLine(k, u) : k \in {"json", "badjson", "text"}, u \in BOOLEAN }

\* handleGeminiOutput(line): the auth state, the ring and the clients after
\* the line, and the messages logged for it. The frames of StdoutLines are
\* neither fs requests nor responses carrying a session id nor ends of turns.
handleGeminiOutput(line, auth, url, h, cl, t, modes, time, listening) ==
    IF line.kind = "blank"
    THEN [isAuthPending |-> auth, pendingAuthUrl |-> url, history |-> h, clients |-> cl,
          logged |-> <<>>]
    ELSE LET a == IF line.url
                  THEN broadcastPayload(h, cl, AuthUrlFrame, FALSE, t, modes, time, listening)
                  ELSE [history |-> h, clients |-> cl]
             b == IF line.kind = "json"
                  THEN broadcastPayload(a.history, a.clients, line.frame, FALSE, t, modes,
                                        time, listening)
                  ELSE a
         IN [isAuthPending |-> auth \/ line.url,
             pendingAuthUrl |-> url \/ line.url,
             history |-> b.history,
             clients |-> b.clients,
             logged |-> (IF line.url THEN <<"Detected Auth URL">> ELSE <<>>) \o
                        (CASE line.kind = "json" -> <<>>
                           [] line.kind = "badjson" -> <<"JSON Parse Error">>
                           [] OTHER -> <<"Gemini STDOUT">>)]

\* rl.on('line'): handleGeminiOutput with any line of the child
GeminiLine ==
    /\ DOMAIN children # {}
    /\ steps < MaxSteps
    /\ \E line \in StdoutLines :
        LET r == handleGeminiOutput(line, isAuthPending, pendingAuthUrl, history, clients,
                                    turnId, turnHiddenModes, now, wss)
        IN /\ isAuthPending' = r.isAuthPending
           /\ pendingAuthUrl' = r.pendingAuthUrl
           /\ history' = r.history
           /\ clients' = r.clients
           /\ lines' = Append(lines, [line |-> line, logged |-> r.logged])
    /\ steps' = steps + 1
    /\ UNCHANGED <<optSessionId, restartVars, parserVars, streamVars, transportVars, clientVars, fsRequests,
                   fsCalls, currentTurnModifiedFiles, checkpoints, fsWritten, received, wss,
                   geminiProcess, spawnCount, turnId, turnHiddenModes, now, stdin, turnAtSpawn>>

FramerNext ==
    \/ GeminiLine
    \/ ClientPrompt
    \/ ClientBlocked
    \/ ClientSubmitAuthCode
    \/ Disconnect
    \/ ProcessExit
    \/ RestartTimer
    \/ RestartTimerThrows

SpecFramer == InitServing /\ [][FramerNext]_vars

\* ---- GeminiBridge: clients joining a running stream ----
LateJoinNext ==
    \/ Start
    \/ StartThrows
    \/ Stop
    \/ ConnectPlain
    \/ Disconnect
    \/ ClientPrompt
    \/ GeminiTurnFrame
    \/ ProcessExit
    \/ RestartTimer
    \/ RestartTimerThrows
    \/ RestartTimerStopped

SpecLateJoin == InitBridge /\ [][LateJoinNext]_vars

\* ---- AgentChatClient: the replay sent again after a reconnect ----
\* The envelopes handled so far that were sent for the first time, and the
\* number of them the bridge has sent again on the new connection.
FirstDeliveries == SelectSeq(handled, LAMBDA e : e.replay /\ ~e.again)
SentAgain == Len(SelectSeq(handled, LAMBDA e : e.again))

\* The dispatch of the bridge/replay case on the payload of envelope e
handleReplayed(c, e) ==
    CASE e.update = "prompt" -> handleReplayPrompt(OpenEnvelope(c, e.env), e.chunk, e.env)
      [] e.update = "tool_call" ->
            handleToolCallUpdate(OpenEnvelope(c, e.env), e.chunk[1], e.chunk[2])
      [] e.update = "tool_call_update" ->
            handleToolUpdate(OpenEnvelope(c, e.env), e.chunk[1], e.chunk[2])
      [] e.update \in {"text", "thought"} ->
            handleChunk(OpenEnvelope(c, e.env), e.update, e.chunk)
      [] e.update = "end_of_turn" -> handleEndOfTurn(OpenEnvelope(c, e.env), "end_turn")
      [] e.update = "auth_url" -> handleAuthUrl(OpenEnvelope(c, e.env), e.chunk[1])
      [] e.update \in {"structured_event", "request_permission"} -> OpenEnvelope(c, e.env)

\* The transport has reconnected with the same url and the bridge replays the
\* ring again: the next envelope of the first delivery arrives once more, with
\* the replayId it had (the ring has not changed).
ReplayAgain ==
    /\ CanHandle
    /\ SentAgain < Len(FirstDeliveries)
    /\ LET e == FirstDeliveries[SentAgain + 1]
       IN /\ SetClientState(handleReplayed(ClientState, e))
          /\ handled' = Append(handled, [e EXCEPT
                                !.hidden = OpenEnvelope(ClientState, e.env).currentTurnHidden,
                                !.again = TRUE])
          /\ authUrl' = IF e.update = "auth_url" THEN e.chunk[1] ELSE authUrl
    /\ UNCHANGED <<sessionId, promptRequests, cancelRequests, calls, connectHandlers,
                   sessionRequests, submitting, parserVars, bridgeVars, streamVars,
                   transportVars>>

\* Envelopes of the first connection: while none has been sent again.
FirstPrompt == SentAgain = 0 /\ NotifyReplayPromptOf(ReplayModes)
FirstChunk == SentAgain = 0 /\ NotifyChunkOf({"text"}, {<<"a">>}, ReplayModes)
FirstToolCall == SentAgain = 0 /\ NotifyToolCallOf({"ls-1"}, ReplayModes)
FirstToolUpdate == SentAgain = 0 /\ NotifyToolUpdateOf({"ls-1"}, {"completed"}, ReplayModes)
FirstEndOfTurn == SentAgain = 0 /\ NotifyEndOfTurnOf(ReplayModes)
FirstAuthUrl == SentAgain = 0 /\ NotifyAuthUrlOf({"undefined"})

ReconnectNext ==
    \/ FirstPrompt \/ FirstChunk \/ FirstToolCall \/ FirstToolUpdate \/ FirstEndOfTurn
    \/ FirstAuthUrl \/ ReplayAgain

SpecReconnect == InitTurn /\ [][ReconnectNext]_vars

\* ---- AgentChatClient: replay envelopes arriving while a turn is in progress ----
\* The __hiddenMode of the envelopes: none recorded, or a turn hidden as turn.
LiveReplayModes == {"undefined", "turn"}

LiveSend == SendMessageOf({"none", "assistant"})
LateReplayedPrompt == NotifyReplayPromptOf(LiveReplayModes)
LateReplayedChunk == NotifyChunkOf({"text"}, {<<"a">>}, LiveReplayModes)
LateReplayedEndOfTurn == NotifyEndOfTurnOf(LiveReplayModes)

ReplayLiveNext ==
    \/ LiveSend
    \/ TurnChunk
    \/ LateReplayedPrompt
    \/ LateReplayedChunk
    \/ LateReplayedEndOfTurn

SpecReplayLive == InitTurn /\ [][ReplayLiveNext]_vars

\* ---- AgentChatClient: every way a turn is closed ----
CompletionNext ==
    \/ SendMessage
    \/ TurnEnd
    \/ TransportResponse
    \/ PromptResponse
    \/ PromptError
    \/ Cancel
    \/ CancelResolved

SpecCompletion == InitTurn /\ [][CompletionNext]_vars

\* ---- AgentChatClient: permission requests inside bridge/replay envelopes ----
\* A replayed request handled like a live one.
replayedPermissionAsLive(c, requestId, toolCallId, options) ==
    handlePermissionRequest(c, requestId, toolCallId, options)

\* The last branch of the bridge/replay case for a session/request_permission
\* payload: its params carry toolCall and options and no update, so nothing
\* is dispatched.
replayedPermission(c, requestId, toolCallId, options) == c

\* 'notification' bridge/replay with a session/request_permission payload.
NotifyReplayedPermissionOf(ids, optionLists, envelopes) ==
    /\ CanHandle
    /\ \E id \in ids, options \in optionLists, env \in envelopes :
        Handle(replayedPermission(OpenEnvelope(ClientState, env), NextRequestId, id, options),
               "request_permission", options, env)

ReplayedPermission ==
    /\ Len(handled) < MaxTurnUpdates
    /\ NotifyReplayedPermissionOf({"ls-1"}, OptionLists, LiveReplayModes)

ReplayedApprovalNext ==
    \/ SendMessage \/ ApprovalRequest \/ ReplayedPermission \/ ApproveTool \/ ResolveStep

SpecReplayedApproval == InitApproval /\ [][ReplayedApprovalNext]_vars

(***************************************************************************)
(* Claims about SysTagParser                                               *)
(***************************************************************************)
\* Reference reading of a whole text, left to right: the first start delimiter
\* opens a region, the first matching end delimiter after it closes it; a
\* region that is never closed is plain text. Gives the events of the closed
\* regions and the text that remains when the regions whose payload parsed
\* (all regions kept when keepAll) are removed.
RECURSIVE RefScan(_, _)
RefScan(t, keepAll) ==
    LET js == IndexOf(t, jsonStart)
        bs == IndexOf(t, blockStart)
        isJson == js # -1 /\ (bs = -1 \/ js < bs)
        idx == IF isJson THEN js ELSE bs
        startTag == IF isJson THEN jsonStart ELSE blockStart
        endTag == IF isJson THEN jsonEnd ELSE blockEnd
        rest == SliceFrom(t, idx + Len(startTag))
        e == IndexOf(rest, endTag)
        raw == SubSeq(rest, 1, e)
        ev == MakeEvent(IF isJson THEN "json" ELSE "block", raw)
        after == RefScan(SliceFrom(rest, e + Len(endTag)), keepAll)
    IN IF idx = -1 \/ e = -1
       THEN [text |-> t, events |-> <<>>]
       ELSE [text |-> SubSeq(t, 1, idx)
                      \o (IF keepAll \/ ev.error # "" THEN startTag \o raw \o endTag ELSE <<>>)
                      \o after.text,
             events |-> <<ev>> \o after.events]

Fed == SubSeq(inText, 1, inPos)
Unfed == SliceFrom(inText, inPos)
OpenEndTag == IF activeTag = "json" THEN jsonEnd ELSE blockEnd

\* The chunk boundary at inPos cuts the end delimiter of the open region after
\* its first k characters.
EndTagSplitAt(k) ==
    /\ activeTag # "null"
    /\ k \in 1..(Len(OpenEndTag) - 1)
    /\ EndsWith(Fed, SubSeq(OpenEndTag, 1, k))
    /\ StartsWith(Unfed, SliceFrom(OpenEndTag, k))

\* C1 (state part): in event or both mode the events emitted so far are those
\* of feeding the same characters in a single consume() call, and they are the
\* events of the regions closed so far, in text order.
C1_EventsIndependentOfSplit ==
    mode \in {"event", "both"} =>
        /\ outEvents = consume(NewParser(mode), Fed).result.events
        /\ outEvents = RefScan(Fed, mode = "both").events

\* C1 (step part): when the boundary cuts an end delimiter, the call before the
\* boundary has not emitted the region's event, and the call that brings the
\* rest of the delimiter emits that event first, with the parsed payload, and
\* after it only the events of the regions closed later in the same chunk.
C1_SplitEndTagStep ==
    \A k \in 1..(Len(jsonEnd) - 1) :
        (/\ mode \in {"event", "both"}
         /\ EndTagSplitAt(k)
         /\ inPos' >= inPos + Len(OpenEndTag) - k
         /\ ~flushed')
        => LET raw == SubSeq(captureBuffer \o buffer, 1, Len(captureBuffer \o buffer) - k)
               ev == MakeEvent(activeTag, raw)
               tail == SubSeq(inText, inPos + Len(OpenEndTag) - k + 1, inPos')
           IN /\ Len(outEvents) = Len(RefScan(Fed, FALSE).events)
              /\ lastResult'.events = <<ev>> \o RefScan(tail, FALSE).events
              /\ outEvents' = outEvents \o lastResult'.events

\* C1: SysTagParser in event or both mode emits the same sequence of structured
\* events (type, payload or error, raw) however the text is cut into chunks; an
\* end delimiter cut by a chunk boundary yields no event in the first call and
\* the region's event in the second; consecutive regions yield separate events
\* in order.
C1_ChunkSplitInvariance ==
    [](C1_EventsIndependentOfSplit) /\ [][C1_SplitEndTagStep]_vars

\* Witness of C1: two consecutive regions, the first end delimiter cut by the
\* boundary between two calls, and the second call emitted both events.
C1_Witness ==
    /\ mode = "both"
    /\ inText = jsonStart \o <<" ", "1">> \o jsonEnd \o blockStart \o <<"x">> \o blockEnd
    /\ prevPos = 7
    /\ inPos = Len(inText)
    /\ ~flushed
    /\ Len(lastResult.events) = 2
    /\ outEvents = << [type |-> "sys_json", raw |-> <<" ", "1">>, payload |-> <<1>>, error |-> ""],
                      [type |-> "sys_block", raw |-> <<"x">>, payload |-> <<>>, error |-> "SyntaxError"] >>

\* C2: after the stop-of-turn flush the concatenated text output is, in event
\* mode, the text without the closed regions whose payload parsed as JSON, and
\* in both mode the text itself, however the text was cut into chunks.
C2_TextOutput ==
    flushed =>
        /\ mode = "event" => outText = RefScan(inText, FALSE).text
        /\ mode = "both" => outText = inText

\* Witness of C2: event mode, a region that parsed followed by one that did
\* not, a chunk boundary inside a delimiter, only the second region is kept.
C2_Witness ==
    /\ flushed
    /\ mode = "event"
    /\ inText = jsonStart \o <<" ", "1">> \o jsonEnd \o blockStart \o <<"x">> \o blockEnd
    /\ prevPos = 10
    /\ outText = blockStart \o <<"x">> \o blockEnd

(***************************************************************************)
(* Claims: GeminiBridge replay ring and replay on connection               *)
(***************************************************************************)
\* An append to a ring below capacity adds the entry at the end; an append to
\* a full ring drops the first (oldest) entry and adds the entry at the end.
C3_EvictsOldest ==
    history' # history =>
        LET e == history'[Len(history')]
        IN IF Len(history) < MAX_HISTORY_SIZE
           THEN history' = Append(history, e)
           ELSE history' = Append(Tail(history), e)

\* C3: after any sequence of accepted prompts and broadcast frames the ring
\* never holds more than MAX_HISTORY_SIZE entries, and when the bound would be
\* exceeded it is the oldest entry that is removed.
C3_RingBounded ==
    [](Len(history) <= MAX_HISTORY_SIZE) /\ [][C3_EvictsOldest]_vars

\* A full ring from which the prompt of turn 1, its oldest entry, has been
\* evicted by the second append.
C3_Witness ==
    /\ steps = 2
    /\ Len(history) = MAX_HISTORY_SIZE
    /\ history[1].data.method = "session/update"
    /\ history[MAX_HISTORY_SIZE].data.turnId = 2

\* C4: in every reachable state, also after the child has exited and been
\* restarted, the ring entries are in non-decreasing timestamp order and
\* their turn ids are non-decreasing from oldest to newest.
C4_RingOrdered ==
    \A i \in 1..(Len(history) - 1) :
        /\ history[i].timestamp <= history[i + 1].timestamp
        /\ history[i].data.turnId <= history[i + 1].data.turnId

\* The second child is running and a prompt accepted after the restart was
\* recorded at a later time and with a higher turn id than the oldest entry.
C4_Witness ==
    /\ spawnCount = 2
    /\ geminiProcess = 2
    /\ turnId > turnAtSpawn
    /\ history[Len(history)].data.method = "session/prompt"
    /\ history[Len(history)].data.turnId = turnId
    /\ history[Len(history)].timestamp > history[1].timestamp

\* The turn ids of a list of entries.
TurnIdsOf(r) == {r[i].data.turnId : i \in 1..Len(r)}

\* The last k distinct turn ids of r: those followed, from their last entry on,
\* by fewer than k other turn ids.
LastTurnIds(r, k) ==
    LET lastPos(t) == CHOOSE i \in 1..Len(r) :
                          /\ r[i].data.turnId = t
                          /\ \A j \in (i + 1)..Len(r) : r[j].data.turnId # t
    IN {t \in TurnIdsOf(r) :
            Cardinality({u \in TurnIdsOf(r) : lastPos(u) > lastPos(t)}) < k}

\* The ring entries carried by the bridge/replay envelopes of a send list.
ReplayedEntries(sent) ==
    LET env == SelectSeq(sent, LAMBDA m : m.method = "bridge/replay")
    IN [i \in 1..Len(env) |-> [timestamp |-> env[i].timestamp, data |-> env[i].data]]

\* A connection with limit = k > 0 is sent, in ring order, exactly the filtered
\* entries whose turn id is one of the last k distinct turn ids of the
\* filtered list, hence at most k distinct turn ids and only whole turns.
C5_ReplayOnConnect ==
    \A c \in Clients :
        (~clients[c].open /\ clients'[c].open /\ clients'[c].query.limit > 0) =>
            LET q == clients'[c].query
                filtered == ReplayFilter(history, q.since, q.before)
                kept == LastTurnIds(filtered, q.limit)
                replayed == ReplayedEntries(clients'[c].sent)
            IN /\ Cardinality(TurnIdsOf(replayed)) <= q.limit
               /\ TurnIdsOf(replayed) = kept
               /\ replayed = SelectSeq(filtered, LAMBDA e : e.data.turnId \in kept)

\* C5: replay on connection with limit=k (k>0) sends at most k distinct turn
\* ids, the last k distinct turn ids among the entries left after the
\* since/before filters, every filtered entry of a kept turn, in ring order.
C5_ReplayLimit == [][C5_ReplayOnConnect]_vars

\* A client connected with limit=1 to a ring holding turns 1 and 2 and was
\* sent turn 2 only.
C5_Witness ==
    \E c \in Clients :
        /\ clients[c].open
        /\ clients[c].query = [limit |-> 1, since |-> -1, before |-> -1]
        /\ TurnIdsOf(history) = {1, 2}
        /\ Len(clients[c].sent) = 1
        /\ clients[c].sent[1].method = "bridge/replay"
        /\ clients[c].sent[1].data.turnId = 2

(***************************************************************************)
(* Claims: extractNewStreamSegment                                         *)
(***************************************************************************)
\* C7: extractNewStreamSegment is idempotent on resends: with the accumulated
\* string P as the chunk the result is empty, and with P followed by a suffix
\* S as the chunk the result is S.
C7_IdempotentOnResend ==
    segDone =>
        /\ (segIncoming = segPrevious => segResult = <<>>)
        /\ \A suffix \in Strings(MaxLen) :
              segIncoming = segPrevious \o suffix => segResult = suffix

\* The call with P = "ab" and the chunk "ab" + "ba" has returned "ba".
C7_Witness ==
    /\ segDone
    /\ segPrevious = <<"a", "b">>
    /\ segIncoming = <<"a", "b", "b", "a">>
    /\ segResult = <<"b", "a">>

\* The seven-step rule, stated without a search loop: the overlap removed in
\* the last step is the longest proper prefix of I that is a suffix of P.
RuleSegment(P, I) ==
    IF I = <<>> THEN <<>>
    ELSE IF P = <<>> THEN I
    ELSE IF I = P THEN <<>>
    ELSE IF Len(I) <= Len(P) /\ (\E k \in 0..(Len(P) - Len(I)) : SubSeq(P, k + 1, k + Len(I)) = I)
         THEN <<>>
    ELSE IF Len(P) <= Len(I) /\ SubSeq(I, 1, Len(P)) = P THEN SubSeq(I, Len(P) + 1, Len(I))
    ELSE LET overlaps == {k \in 0..(Len(I) - 1) :
                             /\ k <= Len(P)
                             /\ SubSeq(I, 1, k) = SubSeq(P, Len(P) - k + 1, Len(P))}
             longest == CHOOSE k \in overlaps : \A j \in overlaps : j <= k
         IN SubSeq(I, longest + 1, Len(I))

\* C9: for all strings P and I over a bounded alphabet, the value returned by
\* extractNewStreamSegment(P, I) is the segment given by the seven-step rule:
\* empty when I is empty, equal to P, or contained in P with length at most
\* |P|; I when P is empty; the rest of I after P when I starts with P;
\* otherwise I without its longest proper prefix that is a suffix of P.
C9_SevenStepRule ==
    segDone => segResult = RuleSegment(segPrevious, segIncoming)

\* "Hello" then "lo world": the call has returned " world".
C9_Witness ==
    /\ segDone
    /\ segPrevious = Hello
    /\ segIncoming = LoWorld
    /\ segResult = <<" ", "w", "o", "r", "l", "d">>

(***************************************************************************)
(* Claims: AgentChatClient                                                 *)
(***************************************************************************)
\* The notifications that touch a message: the chunk and tool call updates
\* touch the assistant message, a replayed prompt the user message it pushes;
\* either is the last message afterwards.
TouchesMessage(update) == update \in {"text", "thought", "tool_call", "prompt"}

\* C6 (one notification): the message touched by the notification handled in
\* this step carries a seq, and it is above the seq of every message before
\* the step, the seq the message itself had from an earlier notification
\* included. The client keeps the seq of a notification nowhere but on the
\* message (and in the meta argument of events), so this is where the order
\* of the notifications can be read.
C6_SeqStep ==
    (/\ handled' # handled
     /\ TouchesMessage(handled'[Len(handled')].update)) =>
        LET touched == messages'[Len(messages')]
        IN /\ "seq" \in DOMAIN touched
           /\ \A i \in 1..Len(messages) :
                  "seq" \in DOMAIN messages[i] => messages[i].seq < touched.seq

\* C6: every notification handled from the transport, live or inside a
\* bridge/replay envelope, is assigned a seq strictly greater than the seq of
\* every notification handled before it; the message touched carries that
\* seq, so sorting by seq reproduces arrival order.
C6_SeqStrictlyIncreasing == [][C6_SeqStep]_vars

\* s is a prefix of t
IsPrefix(s, t) == Len(s) <= Len(t) /\ SubSeq(t, 1, Len(s)) = s

\* Concatenation of the values of the parts of one kind, in content order.
RECURSIVE ConcatParts(_, _)
ConcatParts(content, kind) ==
    IF content = <<>> THEN <<>>
    ELSE (IF Head(content).type = kind THEN Head(content).text ELSE <<>>)
         \o ConcatParts(Tail(content), kind)

\* The flat accumulators are the concatenation of the parts of their kind.
C8_FlatIsConcat ==
    \A i \in 1..Len(messages) :
        messages[i].role = "assistant" =>
            /\ messages[i].text = ConcatParts(messages[i].content, "text")
            /\ messages[i].thought = ConcatParts(messages[i].content, "thought")

\* Every message, part and accumulator keeps its previous value as a prefix.
C8_AppendOnly ==
    /\ Len(messages') >= Len(messages)
    /\ \A i \in 1..Len(messages) :
        /\ messages'[i].role = messages[i].role
        /\ IsPrefix(messages[i].text, messages'[i].text)
        /\ IsPrefix(messages[i].thought, messages'[i].thought)
        /\ Len(messages'[i].content) >= Len(messages[i].content)
        /\ \A j \in 1..Len(messages[i].content) :
              /\ messages'[i].content[j].type = messages[i].content[j].type
              /\ IsPrefix(messages[i].content[j].text, messages'[i].content[j].text)

\* C8: after any sequence of agent_message_chunk and agent_thought_chunk
\* updates every text part, thought part and flat accumulator has its previous
\* value as a prefix, and each flat accumulator equals the concatenation of
\* the parts of its kind in content order.
C8_ContentAppendOnly == []C8_FlatIsConcat /\ [][C8_AppendOnly]_vars

\* A thought chunk "a", then text chunks "ab" and "ba": the text part was
\* extended to "aba" by the segment left after the overlap.
C8_Witness ==
    /\ Len(messages) = 1
    /\ messages[1].content = <<ThoughtContent(<<"a">>), TextContent(<<"a", "b", "a">>)>>
    /\ messages[1].text = <<"a", "b", "a">>
    /\ messages[1].thought = <<"a">>
    /\ handled[3].chunk = <<"b", "a">>

\* The content of the assistant message that is last in msgs, if any.
LastContent(msgs) ==
    IF msgs # <<>> /\ msgs[Len(msgs)].role = "assistant"
    THEN msgs[Len(msgs)].content ELSE <<>>

\* No two adjacent parts are both text or both thought.
C10_NoAdjacentSameKind ==
    \A i \in 1..Len(messages) :
        \A j \in 1..(Len(messages[i].content) - 1) :
            LET p == messages[i].content[j]
                q == messages[i].content[j + 1]
            IN p.type \in {"text", "thought"} => q.type # p.type

\* The effect of one update on the content of the assistant message: a chunk
\* extends the last part when that part has its kind, by the segment the rule
\* gives for the value of that part alone, and otherwise opens a part at the
\* end; a tool_call adds one tool_call part at the end.
C10_UpdateStep ==
    handled' # handled =>
        LET n == handled'[Len(handled')]
            old == LastContent(messages)
            new == LastContent(messages')
            len == Len(old)
        IN /\ n.update \in {"text", "thought"} =>
                IF len > 0 /\ old[len].type = n.update
                THEN new = [old EXCEPT ![len].text = @ \o RuleSegment(@, n.chunk)]
                ELSE new = Append(old, [type |-> n.update, text |-> n.chunk])
           /\ n.update = "tool_call" =>
                /\ Len(new) = len + 1
                /\ SubSeq(new, 1, len) = old
                /\ new[len + 1].type = "tool_call"

\* C10: content lists the parts in arrival order; a chunk extends the last
\* part if and only if that part has the same kind and otherwise opens a new
\* part, so no two adjacent parts are both text or both thought; a tool_call
\* adds exactly one tool_call part at the end; rectification of a chunk uses
\* only the value of the part it extends.
C10_ContentOrder == []C10_NoAdjacentSameKind /\ [][C10_UpdateStep]_vars

\* Text "a", a tool call, then text "ab": the chunk after the tool call opened
\* a new part holding "ab" whole, not rectified against the "a" before it.
C10_Witness ==
    /\ Len(messages) = 1
    /\ messages[1].content = <<TextContent(<<"a">>), ToolCallContent("ls-1"),
                                TextContent(<<"a", "b">>)>>
    /\ messages[1].text = <<"a", "a", "b">>

(***************************************************************************)
(* Claims about the tool calls of AgentChatClient                          *)
(***************************************************************************)
\* No element occurs twice in the sequence.
NoDuplicates(seq) == \A i, j \in 1..Len(seq) : i # j => seq[i] # seq[j]

\* The ids of the tool_call parts of the content of a message, in order.
ContentToolIds(msg) ==
    LET idx == {i \in 1..Len(msg.content) : msg.content[i].type = "tool_call"}
    IN {<<i, msg.content[i].text>> : i \in idx}

\* C11: no assistant message holds two tool calls with the same id, neither in
\* toolCalls nor in content, whatever the order in which
\* session/request_permission, tool_call and tool_call_update arrive for the id.
C11_ToolCallIdUnique ==
    \A m \in 1..Len(messages) :
        messages[m].role = "assistant" =>
            /\ NoDuplicates(ToolCallIds(messages[m]))
            /\ \A p, q \in ContentToolIds(messages[m]) : p[1] # q[1] => p[2] # q[2]

(***************************************************************************)
(* Claims about the turns of AgentChatClient                               *)
(***************************************************************************)
\* Index of the last user message, 0 when there is none.
LastUserIndex(msgs) ==
    LET users == {i \in 1..Len(msgs) : msgs[i].role = "user"}
    IN IF users = {} THEN 0 ELSE CHOOSE i \in users : \A j \in users : j <= i

\* The assistant messages that follow the last user message.
TurnAssistants(msgs) ==
    {i \in (LastUserIndex(msgs) + 1)..Len(msgs) : msgs[i].role = "assistant"}

\* The session updates that change the assistant message.
AssistantUpdates == {"text", "thought", "tool_call", "tool_call_update"}

\* The sendMessage calls whose turn has not ended: inTurn has been set ever
\* since the call, which is the case when it is set now and was set at every
\* later call.
OpenTurns ==
    IF ~inTurn THEN {}
    ELSE {p \in DOMAIN promptRequests :
            \A q \in (p + 1)..Len(promptRequests) : promptRequests[q].overlaps}

\* Index of the user message that the p-th sendMessage call pushed.
PromptIndex(msgs, p) ==
    CHOOSE i \in 0..Len(msgs) :
        \/ i > 0 /\ msgs[i].role = "user" /\ msgs[i].id = promptRequests[p].message
        \/ i = 0 /\ \A j \in 1..Len(msgs) :
                        ~(msgs[j].role = "user" /\ msgs[j].id = promptRequests[p].message)

\* The assistant messages created since the p-th sendMessage call.
AssistantsSince(msgs, p) ==
    {i \in (PromptIndex(msgs, p) + 1)..Len(msgs) : msgs[i].role = "assistant"}

\* The assistant messages that answer the p-th call: those between its user
\* message and the next user message.
AssistantsOf(msgs, p) ==
    {i \in AssistantsSince(msgs, p) :
        \A j \in (PromptIndex(msgs, p) + 1)..i : msgs[j].role = "assistant"}

\* C12 as stated (state part): while the turn opened by a sendMessage call has
\* not ended, at most one assistant message has been created since the call.
C12_TurnOneAssistant ==
    \A p \in OpenTurns : Cardinality(AssistantsSince(messages, p)) <= 1

\* C12 as stated (step part): an assistant update handled before the turn of a
\* call has ended is applied to the one assistant message of that turn, the
\* same as before, and changes no other message.
C12_TurnUpdateStep ==
    (/\ handled' # handled
     /\ handled'[Len(handled')].update \in AssistantUpdates) =>
        \A p \in OpenTurns :
            /\ Cardinality(AssistantsSince(messages', p)) = 1
            /\ AssistantsSince(messages, p) \subseteq AssistantsSince(messages', p)
            /\ \A i \in 1..Len(messages) :
                    i \notin AssistantsSince(messages', p) => messages'[i] = messages[i]

\* C12 as stated: between a sendMessage call and the end of the turn it
\* opened (end_of_turn update or prompt response with stopReason), all
\* assistant updates received are applied to one and the same assistant
\* message, and at most one assistant message is created for the turn.
C12_OneAssistantMessagePerTurn == []C12_TurnOneAssistant /\ [][C12_TurnUpdateStep]_vars

\* What holds per call (state part): at most one assistant message follows the
\* user message of the last sendMessage call, and while inTurn it is the
\* active one.
OneAssistantAfterLastCall ==
    /\ Cardinality(TurnAssistants(messages)) <= 1
    /\ inTurn => \A i \in TurnAssistants(messages) : messages[i].id = activeAssistantId

\* What holds per call (step part): an assistant update handled after a
\* sendMessage call is applied to the assistant message that follows the user message of
\* the last call: that message is created when there is none yet and is the
\* last message, no other message changes, and while inTurn it is and stays
\* the active one.
UpdateAfterLastCallStep ==
    (/\ LastUserIndex(messages) > 0
     /\ handled' # handled
     /\ handled'[Len(handled')].update \in AssistantUpdates) =>
        LET n == Len(messages')
        IN /\ n >= 1
           /\ messages'[n].role = "assistant"
           /\ TurnAssistants(messages') = {n}
           /\ Len(messages') = IF TurnAssistants(messages) = {} THEN Len(messages) + 1
                               ELSE Len(messages)
           /\ \A i \in 1..Len(messages) : i # n => messages'[i] = messages[i]
           /\ inTurn =>
                /\ messages'[n].id = activeAssistantId'
                /\ activeAssistantId # 0 => activeAssistantId' = activeAssistantId

\* Counting from the last sendMessage call instead of from the call that
\* opened the turn, the updates go to one assistant message: a call made
\* before the turn has ended starts a new assistant message for the updates
\* that follow it.
OneAssistantMessagePerCall ==
    []OneAssistantAfterLastCall /\ [][UpdateAfterLastCallStep]_vars

\* Number of assistant_text_final events emitted for the message.
Finals(events, mid) ==
    Cardinality({i \in 1..Len(events) :
                    events[i].name = "assistant_text_final" /\ events[i].mid = mid})

\* C13 (state part): assistant_text_final is never emitted twice for a message.
C13_AtMostOnce ==
    \A m \in 1..Len(messages) : Finals(emitted, messages[m].id) <= 1

\* C13 (end_of_turn): when an end_of_turn update ends the visible turn of a
\* sendMessage call, assistant_text_final has been emitted once for the
\* assistant message that answers the call.
C13_EndOfTurnStep ==
    (/\ handled' # handled
     /\ handled'[Len(handled')].update = "end_of_turn") =>
        \A p \in OpenTurns :
            shouldEmitAssistant(promptRequests[p].hidden) =>
                \A i \in AssistantsOf(messages', p) : Finals(emitted', messages'[i].id) = 1

\* C13 (prompt response): when the response to the prompt of a visible turn
\* carries a stopReason and ends the turn, assistant_text_final has been
\* emitted once for the assistant message that answers the call. (When
\* end_of_turn has ended the turn before, the step above has counted the
\* event, and the state part forbids a second one.)
C13_ResponseStep ==
    \A p \in PendingPrompts \cap OpenTurns :
        (/\ shouldEmitAssistant(promptRequests[p].hidden)
         /\ promptRequests'[p].state = "resolved"
         /\ promptRequests'[p].stopReason # "") =>
            \A i \in AssistantsOf(messages', p) : Finals(emitted', messages'[i].id) = 1

\* C13: for a visible turn that ends by an end_of_turn update, by a prompt
\* response carrying stopReason, or by both in either order,
\* assistant_text_final is emitted exactly once for the assistant message of
\* the turn, never zero times and never twice.
C13_FinalExactlyOnce ==
    /\ []C13_AtMostOnce
    /\ [][C13_EndOfTurnStep]_vars
    /\ [][C13_ResponseStep]_vars

\* The events emitted by the step.
NewEvents == SubSeq(emitted', Len(emitted) + 1, Len(emitted'))

AssistantSideEvents ==
    {"message_update", "text_delta", "assistant_text_delta", "thought_delta",
     "assistant_thought_delta", "tool_update", "tool_call_started", "tool_call_updated",
     "tool_call_completed", "turn_started", "turn_completed", "assistant_text_final",
     "approval_required", "permission_required"}

\* The event is an assistant-side event: one of the events above, or the
\* message event of an assistant message.
IsAssistantSide(e) ==
    \/ e.name \in AssistantSideEvents
    \/ /\ e.name = "message"
       /\ \E i \in 1..Len(messages') :
            messages'[i].id = e.mid /\ messages'[i].role = "assistant"

\* The step is the call sendMessage(text, { hidden }).
IsSendMessage == Len(promptRequests') = Len(promptRequests) + 1

\* C14 (prompt): sendMessage emits the message event of the user message
\* unless hidden is user or turn, and turn_started unless hidden is assistant
\* or turn.
C14_SendStep ==
    IsSendMessage =>
        LET userMsg == messages'[Len(messages')]
            names == {NewEvents[i].name : i \in 1..Len(NewEvents)}
            hiddenMode == promptRequests'[Len(promptRequests')].hidden
        IN /\ ("message" \in names) <=> (hiddenMode \in {"none", "assistant"})
           /\ ("turn_started" \in names) <=> (hiddenMode \in {"none", "user"})
           /\ \A i \in 1..Len(NewEvents) :
                NewEvents[i].name = "message" => NewEvents[i].mid = userMsg.id

\* C14 (hidden turn): from the prompt until the turn has ended, a turn opened
\* with hidden assistant or turn emits no assistant-side event, cancel()
\* included.
C14_HiddenStep ==
    (inTurn /\ currentTurnHidden \in {"assistant", "turn"} /\ ~IsSendMessage) =>
        \A i \in 1..Len(NewEvents) : ~IsAssistantSide(NewEvents[i])

\* C14 (visible turn): with hidden none a tool call, a chunk that extends the
\* text and the end of the turn are announced.
C14_VisibleStep ==
    (inTurn /\ currentTurnHidden = "none" /\ handled' # handled) =>
        LET names == {NewEvents[i].name : i \in 1..Len(NewEvents)}
            update == handled'[Len(handled')].update
        IN /\ update = "tool_call" => {"tool_update", "tool_call_started", "message_update"} \subseteq names
           /\ update = "end_of_turn" => "turn_completed" \in names
           /\ (update = "text" /\ Len(messages') = Len(messages)
               /\ messages'[Len(messages')].text # messages[Len(messages)].text)
                => {"text_delta", "assistant_text_delta", "message_update"} \subseteq names

\* C14: for a turn opened by sendMessage with hidden assistant or turn no
\* assistant-side event is emitted from the prompt until the turn has ended,
\* including when cancel() is called during the turn; for hidden user or turn
\* no message event is emitted for the user message; with hidden none all of
\* them are emitted.
C14_HiddenGating == [][C14_SendStep /\ C14_HiddenStep /\ C14_VisibleStep]_vars

\* C20 (call): cancel() with a session sends the session/cancel request and
\* changes nothing else before the request is answered.
C20_CancelStep ==
    (Len(cancelRequests') = Len(cancelRequests) + 1) =>
        /\ sessionId # 0
        /\ outbox' = Append(outbox, Out("request", "session/cancel", 0, "", ""))
        /\ inTurn' = inTurn
        /\ emitted' = emitted

\* C20 (success): when the request is answered, the client leaves the in-turn
\* state and emits turn_completed with reason canceled.
C20_ResolvedStep ==
    (\E i \in PendingCancels : cancelRequests'[i].state = "resolved") =>
        /\ ~inTurn'
        /\ emitted' = Append(emitted, Ev("turn_completed", 0, "canceled", 0))

\* C20 (failure): when the request fails, the in-turn state is unchanged and
\* cancel emits nothing.
C20_RejectedStep ==
    (\E i \in PendingCancels : cancelRequests'[i].state = "rejected") =>
        /\ inTurn' = inTurn
        /\ emitted' = emitted

\* C20: when a session exists cancel() sends session/cancel, and the client
\* leaves the in-turn state and emits turn_completed with reason canceled; if
\* the request fails the in-turn state is unchanged and cancel emits no
\* turn_completed.
C20_Cancel == [][C20_CancelStep /\ C20_ResolvedStep /\ C20_RejectedStep]_vars

\* A turn was open when cancel() got its answer: the client is out of the turn,
\* the prompt still waits for its response, and the last event is
\* turn_completed canceled.
C20_Witness ==
    /\ Len(cancelRequests) = 1 /\ cancelRequests[1].state = "resolved"
    /\ Len(promptRequests) = 1
    /\ promptRequests[1].hidden = "none" /\ promptRequests[1].state = "sent"
    /\ ~inTurn
    /\ emitted # <<>>
    /\ emitted[Len(emitted)] = Ev("turn_completed", 0, "canceled", 0)
    /\ \E i \in 1..Len(outbox) : outbox[i].method = "session/cancel"

(***************************************************************************)
(* Claims about permission requests of AgentChatClient                     *)
(***************************************************************************)
\* The permission requests handled while the hidden mode of the turn was
\* assistant or turn; a request has the position of its frame as id.
HiddenRequests ==
    {r \in 1..Len(handled) :
        /\ handled[r].update = "request_permission"
        /\ handled[r].hidden \in {"assistant", "turn"}}

\* The kinds that start with deny or reject.
IsDenyKind(kind) == kind # <<>> /\ kind[1] \in {"deny", "reject"}

\* The responses sent to request r, as positions of outbox.
ResponsesTo(r) == {i \in 1..Len(outbox) : outbox[i].kind = "response" /\ outbox[i].id = r}

\* C15 (state part): a permission request received in a turn hidden as
\* assistant or turn is never the pending approval and has no
\* approval_required or permission_required event; when it has an option whose
\* kind starts with deny or reject, it got one response, which selects the
\* first such option.
C15_HiddenRequestRejected ==
    \A r \in HiddenRequests :
        LET options == handled[r].chunk
            deny == {i \in 1..Len(options) : IsDenyKind(options[i].kind)}
        IN /\ pendingApproval.requestId # r
           /\ \A i \in 1..Len(emitted) :
                emitted[i].name \in {"approval_required", "permission_required"}
                    => emitted[i].req # r
           /\ deny = {} => ResponsesTo(r) = {}
           /\ deny # {} =>
                /\ Cardinality(ResponsesTo(r)) = 1
                /\ \A i \in ResponsesTo(r), d \in deny :
                        (\A e \in deny : d <= e) => outbox[i].optionId = options[d].optionId

\* C15 (step part): the response is sent by the handler of the request itself,
\* which neither sets the pending approval nor emits an event.
C15_AutoRejectStep ==
    (/\ handled' # handled
     /\ handled'[Len(handled')].update = "request_permission"
     /\ currentTurnHidden \in {"assistant", "turn"}) =>
        /\ pendingApproval' = pendingApproval
        /\ emitted' = emitted
        /\ messages' = messages
        /\ Len(outbox') <= Len(outbox) + 1

\* C15: a session/request_permission received while the hidden mode of the
\* current turn is assistant or turn is answered automatically with the first
\* option whose kind starts with deny or reject, and is never exposed as the
\* pending approval or by an approval_required or permission_required event.
C15_AutoReject == []C15_HiddenRequestRejected /\ [][C15_AutoRejectStep]_vars

\* A request with the options allow, reject ("no") and deny ("never") arrived
\* in a hidden turn and was answered with "no", response first.
C15_Witness ==
    /\ HiddenRequests # {}
    /\ resolving = <<>>
    /\ Len(outbox) = 3
    /\ outbox[2] = Out("response", "", 1, "no", "")
    /\ outbox[3] = Out("notification", "session/provide_permission", 1, "no", "")
    /\ pendingApproval = NoApproval

\* The step is a call approveTool(optionId).
IsApproveTool == calls' = Append(calls, "approveTool")

\* Number of events with the name.
CountEvents(events, name) == Cardinality({i \in 1..Len(events) : events[i].name = name})

\* C19 (call): approveTool with a pending approval sends the JSON-RPC response
\* to the request id of the pending approval, with outcome selected and the
\* optionId, before anything else; with no pending approval it sends nothing
\* and changes nothing.
C19_ApproveStep ==
    IsApproveTool =>
        IF pendingApproval = NoApproval
        THEN /\ outbox' = outbox
             /\ emitted' = emitted
             /\ pendingApproval' = pendingApproval
             /\ messages' = messages
             /\ resolving' = resolving
        ELSE /\ \E optionId \in {"allow", "no"} :
                    outbox' = Append(outbox, Out("response", "", pendingApproval.requestId,
                                                 optionId, ""))
             /\ emitted' = emitted
             /\ pendingApproval' = pendingApproval

\* C19 (order): every session/provide_permission notification follows a
\* response to the same request with the same optionId, and approval_resolved
\* is emitted, and the pending record cleared, after the notification.
C19_Order ==
    /\ \A j \in 1..Len(outbox) :
        outbox[j].kind = "notification" =>
            \E i \in 1..(j - 1) :
                /\ outbox[i].kind = "response"
                /\ outbox[i].id = outbox[j].id
                /\ outbox[i].optionId = outbox[j].optionId
    /\ CountEvents(emitted, "approval_resolved")
         <= Cardinality({j \in 1..Len(outbox) : outbox[j].kind = "notification"})

\* C19 (clear): the step that emits approval_resolved clears the pending record.
C19_ClearStep ==
    CountEvents(emitted', "approval_resolved") > CountEvents(emitted, "approval_resolved")
        => pendingApproval' = NoApproval

\* C19 (once): no request gets two responses.
C19_AnsweredOnce ==
    \A r \in 1..Len(handled) : Cardinality(ResponsesTo(r)) <= 1

\* C19: approveTool(optionId) with a pending approval first sends the response
\* to the original request id with outcome selected and optionId, then the
\* session/provide_permission notification with the same outcome, then clears
\* the pending record and emits approval_resolved; with no pending approval it
\* sends nothing and changes nothing; a request is answered at most once.
C19_ApprovalResolution ==
    /\ [](C19_Order /\ C19_AnsweredOnce)
    /\ [][C19_ApproveStep /\ C19_ClearStep]_vars

(***************************************************************************)
(* Claims: GeminiBridge client frames                                      *)
(***************************************************************************)
\* The step handles a session/prompt frame of a client.
IsPromptStep == turnId' = turnId + 1

\* The step sent client p one more frame, a bridge/replay envelope whose data
\* is the prompt recorded by the step.
GotPromptEcho(p) ==
    LET sent == clients'[p].sent
        entry == history'[Len(history')]
    IN /\ Len(sent) = Len(clients[p].sent) + 1
       /\ SubSeq(sent, 1, Len(sent) - 1) = clients[p].sent
       /\ sent[Len(sent)].method = "bridge/replay"
       /\ sent[Len(sent)].data = entry.data
       /\ entry.data.method = "session/prompt"
       /\ entry.data.turnId = turnId'
       /\ entry.data.hiddenMode = received'[Len(received')].frame.hidden

\* C16: when a connected client sends session/prompt, every other open client
\* receives, in that step and so before any later session update of the turn,
\* a bridge/replay envelope whose data is the prompt tagged with the new turn
\* id and the hidden mode of the prompt; the sending client receives nothing.
C16_PeerEcho ==
    [][IsPromptStep =>
        \E c \in Clients :
            /\ clients[c].open
            /\ clients'[c].sent = clients[c].sent
            /\ \A p \in Clients \ {c} : clients[p].open => GotPromptEcho(p)]_vars


\* The last frame received from a client arrived while isAuthPending and is
\* neither gemini/submitAuthCode nor authenticate.
GatedFrame ==
    /\ received' # received
    /\ received'[Len(received')].authPending
    /\ received'[Len(received')].frame.method \notin {"gemini/submitAuthCode", "authenticate"}

\* C17: while isAuthPending, a frame received from a client that is neither
\* gemini/submitAuthCode nor authenticate, text that is not JSON included,
\* writes nothing to the stdin of the child and leaves turnId and the ring
\* unchanged.
C17_AuthGate ==
    [][GatedFrame => /\ stdin' = stdin
                     /\ turnId' = turnId
                     /\ history' = history]_vars


(***************************************************************************)
(* Claims: GeminiBridge file-tool emulation                                *)
(***************************************************************************)
\* The path of a request is missing, or resolves to a path that is neither
\* the project root nor below it.
Escapes(p) == ~p.given \/ ~StartsWith(PathResolve(projectRootReal, p), projectRootReal)

LastFsRequest == fsRequests'[Len(fsRequests')]

\* C18: an fs/read_text_file or fs/write_text_file request whose path is
\* missing or resolves outside the project root is answered with error
\* -32602 carrying the id of the request; no file is read, no directory is
\* created, no file is written, and the set of modified files is unchanged.
C18_PathEscape ==
    [][(fsRequests' # fsRequests /\ Escapes(LastFsRequest.path)) =>
          /\ stdin' = Append(stdin, [pid |-> geminiProcess,
                                     frame |-> Response(LastFsRequest.id, -32602)])
          /\ fsCalls' = fsCalls
          /\ currentTurnModifiedFiles' = currentTurnModifiedFiles]_vars

\* C18 witness: after a write that succeeded, a request with a relative path
\* that climbs out of the root was answered with -32602.
C18_Witness ==
    /\ Len(fsRequests) = 2
    /\ currentTurnModifiedFiles # {}
    /\ LET req == fsRequests[2]
       IN /\ req.path.given /\ ~req.path.abs /\ Escapes(req.path)
          /\ stdin[Len(stdin)].frame = Response(req.id, -32602)
          /\ Len(fsCalls) = 2


(***************************************************************************)
(* Claims: AcpWebSocketTransport                                           *)
(***************************************************************************)
\* this.ws was open or connecting and is closed by this step.
SocketCloses ==
    /\ tSockets # <<>>
    /\ tSockets[Len(tSockets)].state # "closed"
    /\ tSockets'[Len(tSockets)].state = "closed"

\* Every promise pending before the step is rejected with the closed error
\* after it.
PendingRejected ==
    \A id \in 1..Len(tPromises) :
        tPromises[id].state = "pending" => tPromises'[id].state = "rejected: closed"

\* resolve and reject are called at most once for a promise, and a promise
\* that is still pending is in pendingRequests, where a response, a close or
\* a dispose can find it.
C21_SettledOnce ==
    \A id \in 1..Len(tPromises) :
        /\ tPromises[id].settles <= 1
        /\ tPromises[id].state = "pending" => id \in tPending

C21_CloseStep == (SocketCloses /\ ~tDisposed') => PendingRejected

C21_DisposeStep == (tDisposed' /\ ~tDisposed) => PendingRejected

\* C21: every promise returned by sendRequest is settled exactly once: it is
\* rejected when the socket closes before the response arrives and rejected
\* with the closed error when dispose() is called while it is pending, so no
\* pending request is left unsettled after a close or a dispose.
C21_RequestsSettled ==
    /\ []C21_SettledOnce
    /\ [][C21_CloseStep /\ C21_DisposeStep]_vars

\* A reconnect timer fires or the host connects: a socket is created.
OpensSocket == Len(tSockets') > Len(tSockets)

\* The socket is created by a connect() call of the host, not by a timer.
HostConnects == OpensSocket /\ tTimers' = tTimers

C22_CloseSchedules ==
    (SocketCloses /\ ~tDisposed' /\ tReconnect) =>
        /\ tTimers' = tTimers + 1
        /\ tState' = "reconnecting"

C22_ClosedForGood ==
    (tDisposed /\ ~HostConnects) => (~OpensSocket /\ tState' = "disconnected")

\* C22: with reconnect enabled every close of the socket before dispose()
\* schedules one reconnect attempt; once dispose() has been called the
\* transport opens no socket again by itself (a connect() call of the host is
\* not counted), a reconnect timer scheduled before the dispose included, and
\* the connection state stays disconnected.
C22_ReconnectUntilDispose ==
    [][C22_CloseSchedules /\ C22_ClosedForGood]_vars


(***************************************************************************)
(* Claims: GeminiBridge turns, ring content and recovery                   *)
(***************************************************************************)
\* The step handles a session/prompt frame of a client with the child present
\* and the auth gate open.
PromptAccepted ==
    /\ received' # received
    /\ received'[Len(received')].frame.method = "session/prompt"
    /\ ~received'[Len(received')].authPending

\* The step starts a child in place of one that has exited.
ChildReplaced == geminiProcess = 0 /\ geminiProcess' # 0 /\ spawnCount > 0

\* C23: turnId grows by exactly one at each accepted session/prompt frame and
\* changes at no other step, except that it is reset when the child is
\* replaced after an exit, so that the first prompt accepted after a restart
\* gets turn id 1.
C23_TurnCounter ==
    [][/\ PromptAccepted => turnId' = turnId + 1
       /\ ChildReplaced => turnId' = 0
       /\ (~PromptAccepted /\ ~ChildReplaced) => turnId' = turnId]_vars


(***************************************************************************)
(* Claims: AgentChatClient replay intake and hidden turns                  *)
(***************************************************************************)
\* The step handles a frame of the given kinds that arrived in a bridge/replay
\* envelope whose __hiddenMode is one of the given modes.
Replayed(updates, modes) ==
    /\ Len(handled') = Len(handled) + 1
    /\ handled'[Len(handled')].replay
    /\ handled'[Len(handled')].update \in updates
    /\ handled'[Len(handled')].env \in modes

LastMessage == messages'[Len(messages')]

EventNames(events) == {events[i].name : i \in 1..Len(events)}

C24_HiddenPrompt ==
    Replayed({"prompt"}, {"user", "turn"}) =>
        /\ Len(messages') = Len(messages) + 1
        /\ LastMessage.role = "user" /\ LastMessage.hidden
        /\ EventNames(NewEvents) \cap {"message", "message_update"} = {}

C24_HiddenAssistant ==
    Replayed({"text", "tool_call"}, {"assistant", "turn"}) =>
        /\ messages' # <<>> /\ LastMessage.role = "assistant"
        /\ LastMessage.text # <<>> \/ LastMessage.toolCalls # <<>>
        /\ NewEvents = <<>>

C24_VisibleTurn ==
    /\ Replayed({"prompt"}, {"undefined", "none"}) =>
        /\ ~LastMessage.hidden
        /\ {"message", "message_update"} \subseteq EventNames(NewEvents)
    /\ Replayed({"text", "tool_call"}, {"undefined", "none"}) =>
        /\ messages' # <<>> /\ LastMessage.role = "assistant"
        /\ Len(messages') > Len(messages) =>
              (~LastMessage.hidden /\ "message" \in EventNames(NewEvents))
        /\ (Len(messages') = Len(messages)
              /\ <<LastMessage.text, LastMessage.toolCalls>>
                   # <<messages[Len(messages)].text, messages[Len(messages)].toolCalls>>)
             => NewEvents # <<>>

\* C24: each replayed frame is gated by the hidden mode recorded for its own
\* turn: a replayed prompt of a turn hidden as user or turn gives a hidden
\* user message and no message / message_update event; replayed assistant
\* updates of a turn hidden as assistant or turn are applied without events;
\* replayed frames of a turn with no hidden mode are emitted normally, also
\* when the turn replayed before was hidden.
C24_ReplayGating ==
    [][C24_HiddenPrompt /\ C24_HiddenAssistant /\ C24_VisibleTurn]_vars


\* A second client, constructed like the first, that has sent the same prompt
\* with hidden none.
TwinStart ==
    sendMessage([messages |-> <<>>, idCounter |-> 0, inTurn |-> FALSE,
                 activeAssistantId |-> 0, lastFinalizedAssistantId |-> 0,
                 currentTurnHidden |-> "none", pendingApproval |-> NoApproval,
                 emitted |-> <<>>, outbox |-> <<>>, resolving |-> <<>>], "none")

\* The second client handles the notification n.
TwinHandle(c, n) ==
    IF n.update \in {"text", "thought"} THEN handleChunk(c, n.update, n.chunk)
    ELSE IF n.update = "tool_call" THEN handleToolCallUpdate(c, n.chunk[1], n.chunk[2])
    ELSE handleToolUpdate(c, n.chunk[1], n.chunk[2])

RECURSIVE TwinRun(_, _)
TwinRun(c, log) == IF log = <<>> THEN c ELSE TwinRun(TwinHandle(c, Head(log)), Tail(log))

\* What a message holds besides its hidden flag and its stamps.
Accumulated(msg) ==
    [role |-> msg.role, content |-> msg.content, text |-> msg.text,
     thought |-> msg.thought, toolCalls |-> msg.toolCalls]

\* C25: a client in a turn sent with hidden assistant or turn and a client in
\* a turn sent with hidden none that handle the same chunk, tool_call and
\* tool_call_update notifications hold messages with the same content, text,
\* thought and toolCalls; only the events and the hidden flag differ. Both
\* clients have sent one prompt.
C25_StateIndependentOfHidden ==
    (Len(promptRequests) = 1 /\ PendingPrompts # {}) =>
        LET twin == TwinRun(TwinStart, handled)
        IN /\ Len(twin.messages) = Len(messages)
           /\ \A i \in 1..Len(messages) :
                Accumulated(messages[i]) = Accumulated(twin.messages[i])

\* C25 witness: in a hidden turn a text chunk, a tool call and its completion
\* were handled without one assistant-side event, and the message holds them.
C25_Witness ==
    /\ Len(promptRequests) = 1
    /\ promptRequests[1].hidden \in {"assistant", "turn"}
    /\ Len(handled) = 3
    /\ handled[1].update = "text"
    /\ handled[2].update = "tool_call"
    /\ handled[3].update = "tool_call_update" /\ handled[3].chunk = <<"ls-1", "completed">>
    /\ emitted = IF promptRequests[1].hidden = "turn" THEN <<>> ELSE <<Ev("message", 1, "", 0)>>
    /\ Len(messages) = 2
    /\ messages[2].hidden
    /\ messages[2].text # <<>>
    /\ Len(messages[2].toolCalls) = 1 /\ messages[2].toolCalls[1].status = "completed"
    /\ Len(TwinRun(TwinStart, handled).emitted) > 3

(***************************************************************************)
(* Claims about createSysTagTransform inside the bridge                    *)
(***************************************************************************)
\* The parser holds in-flight state.
InFlight(ps) == ps.buffer # <<>> \/ ps.captureBuffer # <<>> \/ ps.activeTag # "null"

\* A stop-of-turn frame: a response carrying result.stopReason, or a
\* session/update with sessionUpdate end_of_turn.
IsStopFrame(msg) == "stopReason" \in DOMAIN msg \/ msg.update = "end_of_turn"

\* The text the parser holds, prefixed by the start delimiter of the region
\* that is open, if one is.
HeldText(ps) ==
    (IF ps.activeTag = "json" THEN jsonStart
     ELSE IF ps.activeTag = "block" THEN blockStart ELSE <<>>)
    \o ps.captureBuffer \o ps.buffer

\* C26: when a stop-of-turn frame arrives while the parser holds in-flight
\* state, the transform outputs one agent_message_chunk carrying the held
\* text (prefixed by the start delimiter of an unterminated tag), then the
\* original stop frame and nothing else (no structured event); the parser is
\* left with empty buffer, empty capture and no active tag, and the output
\* for the next frame is the output of a fresh parser.
C26_FlushOnStop ==
    \A i \in 1..Len(transformLog) :
        LET e == transformLog[i]
        IN IsStopFrame(e.msg) /\ InFlight(e.before) =>
            /\ Len(e.forward) = 1
            /\ e.forward[1].method = "session/update"
            /\ e.forward[1].update = "agent_message_chunk"
            /\ e.forward[1].text = HeldText(e.before)
            /\ e.extra = <<e.msg>>
            /\ e.after = NewParser(mode)
            /\ i < Len(transformLog) =>
                LET n == transformLog[i + 1]
                    fresh == sysTagTransform(NewParser(mode), n.msg)
                IN n.forward = fresh.forward /\ n.extra = fresh.extra

\* C26 witness: a stop response arrived while a <J> region was open, and the
\* flush chunk and the stop response have reached client 1.
C26_Witness ==
    /\ transformLog # <<>>
    /\ LET e == transformLog[Len(transformLog)]
       IN /\ e.msg = StopResponse
          /\ e.before.activeTag = "json"
          /\ Len(clients[1].sent) >= 2
          /\ clients[1].sent[Len(clients[1].sent)] = StopResponse
          /\ clients[1].sent[Len(clients[1].sent) - 1]
                = ChunkFrame(jsonStart \o <<" ", "1">>)

\* Concatenation of two lists of frames in which a text frame that ends the
\* first list and a text frame that begins the second are one text segment.
JoinSegments(a, b) ==
    IF a # <<>> /\ b # <<>> /\ "text" \in DOMAIN a[Len(a)] /\ "text" \in DOMAIN b[1]
    THEN SubSeq(a, 1, Len(a) - 1)
         \o <<ChunkFrame(a[Len(a)].text \o b[1].text)>>
         \o Tail(b)
    ELSE a \o b

\* Reference reading of one chunk, left to right, as the list of frames it
\* stands for: the text before a closed region, the region (its raw text
\* first when it is kept: keepAll, or a payload that does not parse, then its
\* structured event), and the reading of what follows the region.
RECURSIVE RefFrames(_, _)
RefFrames(t, keepAll) ==
    LET js == IndexOf(t, jsonStart)
        bs == IndexOf(t, blockStart)
        isJson == js # -1 /\ (bs = -1 \/ js < bs)
        idx == IF isJson THEN js ELSE bs
        startTag == IF isJson THEN jsonStart ELSE blockStart
        endTag == IF isJson THEN jsonEnd ELSE blockEnd
        rest == SliceFrom(t, idx + Len(startTag))
        e == IndexOf(rest, endTag)
        raw == SubSeq(rest, 1, e)
        ev == MakeEvent(IF isJson THEN "json" ELSE "block", raw)
        textOf(s) == IF s = <<>> THEN <<>> ELSE <<ChunkFrame(s)>>
    IN IF idx = -1 \/ e = -1
       THEN textOf(t)
       ELSE JoinSegments(
                JoinSegments(textOf(SubSeq(t, 1, idx)),
                             (IF keepAll \/ ev.error # ""
                              THEN textOf(startTag \o raw \o endTag) ELSE <<>>)
                             \o <<makeStructuredEvent(ev)>>),
                RefFrames(SliceFrom(rest, e + Len(endTag)), keepAll))

\* The fields of a ring entry's frame that are those of the frame f.
Untagged(entry, f) == [k \in DOMAIN f |-> entry.data[k]]

\* A frame of the child that is an agent_message_chunk carrying text.
IsTextChunk(msg) ==
    /\ msg.update = "agent_message_chunk"
    /\ "text" \in DOMAIN msg
    /\ msg.text # <<>>

\* C27: when the bridge handles one agent_message_chunk carrying text, the
\* frames it broadcasts (the frame replacing the original, then the extras)
\* are the text segments and structured events of the chunk in left-to-right
\* order (for a chunk that the parser reads from and to its idle state), every
\* open client receives exactly these frames in that order, a client that is
\* not open receives nothing, and the ring grows by these frames in that order.
C27_TransformOrder ==
    [][ (transformLog' # transformLog /\ IsTextChunk(transformLog'[Len(transformLog')].msg)) =>
          LET e == transformLog'[Len(transformLog')]
              out == e.forward \o e.extra
          IN /\ (mode # "raw" /\ ~InFlight(e.before) /\ ~InFlight(e.after))
                    => out = RefFrames(e.msg.text, mode = "both")
             /\ mode = "raw" => out = <<e.msg>>
             /\ \A c \in Clients :
                    clients'[c].sent = clients[c].sent \o (IF clients[c].open THEN out ELSE <<>>)
             /\ Len(history') = Len(history) + Len(out)
             /\ SubSeq(history', 1, Len(history)) = history
             /\ \A i \in 1..Len(out) : Untagged(history'[Len(history) + i], out[i]) = out[i]
      ]_vars

\* C27 witness: in event mode the chunk x<J> 1</J>x was handled; client 1
\* received the text x, the structured event with payload 1 and the text x,
\* and the ring ends with these three frames.
C27_Witness ==
    /\ mode = "event"
    /\ transformLog # <<>>
    /\ LET e == transformLog[Len(transformLog)]
           n == Len(clients[1].sent)
           h == Len(history)
           ev == makeStructuredEvent(MakeEvent("json", <<" ", "1">>))
       IN /\ e.msg = ChunkFrame(<<"x">> \o jsonStart \o <<" ", "1">> \o jsonEnd \o <<"x">>)
          /\ n >= 3 /\ h >= 3
          /\ SubSeq(clients[1].sent, n - 2, n) = <<ChunkFrame(<<"x">>), ev, ChunkFrame(<<"x">>)>>
          /\ history[h - 2].data.text = <<"x">>
          /\ history[h - 1].data.method = "bridge/structured_event"
          /\ history[h].data.text = <<"x">>

\* The methods of the frames that are relevant to replay.
ReplayRelevant ==
    {"session/update", "session/request_permission", "gemini/authUrl",
     "bridge/structured_event", "session/prompt"}

\* C28: every ring entry is a session/update, a session/request_permission, a
\* gemini/authUrl, a bridge/structured_event or a session/prompt; a JSON-RPC
\* response (with or without stopReason), a cancellation and a reply to an
\* emulated file tool are never stored.
C28_RingContent ==
    \A i \in 1..Len(history) : history[i].data.method \in ReplayRelevant

\* The ring entries recorded for prompts that carry meta.hidden.
HiddenPromptEntries ==
    {i \in 1..Len(history) : /\ history[i].data.method = "session/prompt"
                             /\ history[i].data.hiddenMode # "undefined"}

\* C29: when a session/prompt whose first item carries meta.hidden is
\* accepted, the frame written to the child's stdin carries no hidden-mode
\* metadata, and the ring entry recorded for the prompt carries the new turn
\* id and the hidden mode; every frame stored later under the same turn id
\* carries the same hidden mode.
C29_PromptIntake ==
    /\ [][ (IsPromptStep /\ received'[Len(received')].frame.hidden # "undefined") =>
             LET sent == received'[Len(received')].frame
                 entry == history'[Len(history')]
             IN /\ stdin' = Append(stdin, [pid |-> geminiProcess,
                                           frame |-> Frame("session/prompt", "", "undefined")])
                /\ Len(history') = Len(history) + 1
                /\ entry.data.method = "session/prompt"
                /\ entry.data.turnId = turnId + 1
                /\ turnId' = turnId + 1
                /\ entry.data.hiddenMode = sent.hidden
       ]_vars
    /\ [](\A i \in HiddenPromptEntries : \A j \in (i + 1)..Len(history) :
             history[j].data.turnId = history[i].data.turnId
                => history[j].data.hiddenMode = history[i].data.hiddenMode)

\* C29 witness: a prompt with meta.hidden = turn opened turn 1, was written
\* to the child without the metadata (which the ring entry, sharing params
\* with the frame, lost as well: the mode is in its __hiddenMode), and a frame
\* of the child was stored after it under turn 1 with the mode turn.
C29_Witness ==
    /\ Len(history) >= 2
    /\ history[1].data.method = "session/prompt"
    /\ history[1].data.hidden = "undefined"
    /\ history[1].data.hiddenMode = "turn"
    /\ history[1].data.turnId = 1
    /\ history[2].data.method # "session/prompt"
    /\ history[2].data.turnId = 1
    /\ history[2].data.hiddenMode = "turn"
    /\ stdin # <<>>
    /\ stdin[1].frame = Frame("session/prompt", "", "undefined")

(***************************************************************************)
(* Claims: GeminiBridge crash recovery                                     *)
(***************************************************************************)
\* The step is the exit of the child of a started bridge.
ChildExits == wss # 0 /\ geminiProcess # 0 /\ geminiProcess' = 0

\* The child of a started bridge has exited and no start attempt was made
\* since; another child may still be spawned within the bound.
AwaitingRestart ==
    wss # 0 /\ geminiProcess = 0 /\ spawnCount > 0 /\ spawnCount < MaxSpawns /\ ~spawnFailed

\* The exit of the child clears the session id and the auth-pending flag in
\* the same step.
ClearedAtExit == [][ChildExits => (acpSessionId' = 0 /\ ~isAuthPending')]_vars

\* C30 (as stated): whenever the child exits while the bridge is started, the
\* session id and the auth-pending flag are cleared at once and, with timers
\* that fire, a new child is eventually started, also when the start attempt
\* fails.
C30_RestartAlways ==
    /\ ClearedAtExit
    /\ (wss # 0 /\ geminiProcess = 0 /\ spawnCount > 0 /\ spawnCount < MaxSpawns)
           ~> (geminiProcess # 0)

\* The restart timer fired and spawn threw.
RestartFailed == restartTimers' < restartTimers /\ wss # 0 /\ spawnFailed' /\ spawnCount' = spawnCount

\* C30 (amended): whenever the child exits while the bridge is started, the
\* session id and the auth-pending flag are cleared at once and, with timers
\* that fire, a start attempt is eventually made: it starts a new child unless
\* spawning throws, and an attempt that throws starts no child and sets no
\* timer (nothing retries it).
C30_RestartAttempted ==
    /\ ClearedAtExit
    /\ AwaitingRestart ~> (geminiProcess # 0 \/ spawnFailed)
    /\ [][RestartFailed => (/\ geminiProcess' = geminiProcess
                            /\ children' = children
                            /\ restartTimers' = restartTimers - 1)]_vars

\* C30 witness: the first child set a session id and asked for
\* authentication, exited, and the timer started the second child with the
\* session id and the flag clear.
C30_Witness ==
    /\ wss # 0
    /\ spawnCount = 2
    /\ geminiProcess = 2
    /\ acpSessionId = 0
    /\ ~isAuthPending
    /\ pendingAuthUrl
    /\ steps = 2
    /\ restartTimers = 0

(***************************************************************************)
(* Claims: GeminiBridge supervisor                                         *)
(***************************************************************************)
\* C31: a step that leaves the bridge stopped (stop() itself, and every step
\* taken while it is stopped: the 'close' of the killed child, a restart
\* timer set before stop(), output of a child that is still read) starts no
\* child and sends no frame to any connected client.
C31_StoppedStaysStopped ==
    [][ wss' = 0 => /\ spawnCount' = spawnCount
                   /\ geminiProcess' = 0
                   /\ \A c \in Clients :
                        clients[c].open => clients'[c].sent = clients[c].sent ]_vars

\* C31 witness: the bridge was started and stopped while client 1 was
\* connected; the restart timer set by an exit before stop() has fired, every
\* child has closed, and a frame of a child was recorded after client 1's
\* connection without being sent to it.
C31_Witness ==
    /\ wss = 0
    /\ spawnCount = 2
    /\ DOMAIN children = {}
    /\ restartTimers = 0
    /\ clients[1].open
    /\ clients[1].sent = <<>>
    /\ history # <<>>

\* The children that run: spawned, not killed, 'close' not fired.
Running == {p \in DOMAIN children : children[p] = "running"}

\* C40: at most one child runs, and it is the one the bridge references;
\* a client frame is written to the stdin of that child.
C40_OneChild ==
    /\ [](Cardinality(Running) <= 1)
    /\ [](Running \subseteq {geminiProcess})
    /\ [][stdin' # stdin => (/\ stdin'[Len(stdin')].pid = geminiProcess
                             /\ Running = {geminiProcess})]_vars

\* The writes recorded after the k-th one
WrittenSince(k) == { i \in DOMAIN fsWritten : i > k }

\* The number of writes that had been made at the last call of the hook
LastHandedUpto == IF checkpoints = <<>> THEN 0 ELSE checkpoints[Len(checkpoints)].upto

\* C32: whenever the checkpoint hook is called, its file list is exactly the
\* set of paths written successfully in the current turn under the current
\* child (and not handed over before), and the set is empty afterwards.
C32_CheckpointFiles ==
    [][ Len(checkpoints') > Len(checkpoints) =>
          /\ checkpoints'[Len(checkpoints')].files =
               { fsWritten[i].path :
                   i \in { j \in WrittenSince(LastHandedUpto) :
                             /\ fsWritten[j].turnId = turnId
                             /\ fsWritten[j].pid = geminiProcess } }
          /\ currentTurnModifiedFiles' = {} ]_vars

\* A step that handles a client message whose text is not JSON
NotJsonHandled ==
    /\ Len(received') = Len(received) + 1
    /\ received'[Len(received')].frame = NotJson

\* C33 as stated: a client frame that is not valid JSON is dropped: nothing
\* is written to stdin, the turn counter and the ring are unchanged and the
\* connection stays open.
C33_NotJsonDropped ==
    [][ NotJsonHandled =>
          /\ stdin' = stdin
          /\ turnId' = turnId
          /\ history' = history
          /\ clients'[received'[Len(received')].client].open ]_vars

\* C33 amended: a client frame that is not valid JSON is dropped only while
\* the bridge references no child; while a child is referenced and no
\* authentication is pending it is written unchanged to the stdin of that
\* child. In both cases turn counter, ring, auth state and the clients are
\* unchanged, and the connection stays open.
C33_NotJsonForwarded ==
    [][ (NotJsonHandled /\ (geminiProcess = 0 \/ ~isAuthPending)) =>
          /\ stdin' = IF geminiProcess = 0 THEN stdin
                      ELSE Append(stdin, [pid |-> geminiProcess, frame |-> NotJson])
          /\ turnId' = turnId
          /\ history' = history
          /\ turnHiddenModes' = turnHiddenModes
          /\ isAuthPending' = isAuthPending
          /\ clients' = clients
          /\ clients'[received'[Len(received')].client].open ]_vars

\* A client sent text that is not JSON twice with no authentication pending:
\* once after the first child had exited, when it was dropped, and once after
\* the restart, when it was written to the second child.
C33_Witness ==
    /\ Len(received) = 2
    /\ received[1].frame = NotJson /\ ~received[1].authPending
    /\ received[2].frame = NotJson /\ ~received[2].authPending
    /\ received[2].client = received[1].client
    /\ spawnCount = 2
    /\ stdin = <<[pid |-> 2, frame |-> NotJson]>>
    /\ clients[received[1].client].open

\* A step of handleGeminiOutput, and the line it handled
LineHandled == Len(lines') = Len(lines) + 1
HandledLine == lines'[Len(lines')].line

\* C34: every non-blank stdout line gets one classification: a line that
\* starts with { and parses is broadcast as its frame and neither sets the
\* auth state nor announces an auth URL; a line that starts with { and does
\* not parse is only logged, and the child's output is still read.
C34_OneClassification ==
    [][ LineHandled =>
          /\ HandledLine.kind = "json" =>
               /\ isAuthPending' = isAuthPending
               /\ pendingAuthUrl' = pendingAuthUrl
               /\ history' = Append(history,
                               [timestamp |-> now,
                                data |-> Tagged(HandledLine.frame, turnId,
                                                HiddenModeOf(turnHiddenModes, turnId))])
               /\ clients' = SendToOpen(clients, HandledLine.frame, wss)
               /\ lines'[Len(lines')].logged = <<>>
          /\ HandledLine.kind = "badjson" =>
               /\ isAuthPending' = isAuthPending
               /\ pendingAuthUrl' = pendingAuthUrl
               /\ history' = history
               /\ clients' = clients
               /\ lines'[Len(lines')].logged = <<"JSON Parse Error">>
               /\ geminiProcess' = geminiProcess ]_vars

\* The frame of a ring entry or of a replay envelope, without the tags
FrameOf(data) == Frame(data.method, data.update, data.hidden)

\* What a client has been sent, replay envelopes opened
Delivered(sent) ==
    [i \in DOMAIN sent |-> IF sent[i].method = "bridge/replay" THEN FrameOf(sent[i].data)
                           ELSE sent[i]]

UpdatesIn(frames) == SelectSeq(frames, LAMBDA f : f.method = "session/update")

RingFrames == [i \in DOMAIN history |-> FrameOf(history[i].data)]

IsReplayedUpdate(m) == m.method = "bridge/replay" /\ m.data.method = "session/update"

\* C35: a client connected without query parameters to the listener the
\* bridge serves (its socket is in wss.clients) has been sent every session
\* update of the ring exactly once and in ring order, those stored before it
\* connected as bridge/replay envelopes and the later ones live, no envelope
\* after a live update.
C35_LateJoinerCatchUp ==
    \A c \in Clients :
        (clients[c].open /\ clients[c].query = NoQuery /\ clients[c].listener = wss) =>
            /\ UpdatesIn(Delivered(clients[c].sent)) = UpdatesIn(RingFrames)
            /\ \A i, j \in DOMAIN clients[c].sent :
                 (i < j /\ IsReplayedUpdate(clients[c].sent[j])) =>
                     clients[c].sent[i].method = "bridge/replay"

\* A client that joined after a chunk was stored and then got the end of the
\* turn live.
C35_Witness ==
    \E c \in Clients :
        /\ clients[c].open
        /\ Len(clients[c].sent) = 2
        /\ IsReplayedUpdate(clients[c].sent[1])
        /\ clients[c].sent[1].data.update = "agent_message_chunk"
        /\ clients[c].sent[2] = Frame("session/update", "end_of_turn", "")
        /\ Len(history) = 2

\* The conversation: role, text and ordered content of every message
Conversation(msgs) ==
    [i \in DOMAIN msgs |-> [role |-> msgs[i].role, text |-> msgs[i].text,
                            thought |-> msgs[i].thought, content |-> msgs[i].content,
                            toolCalls |-> msgs[i].toolCalls]]

\* A step that handles an envelope the client has handled before
Redelivered ==
    /\ Len(handled') = Len(handled) + 1
    /\ handled'[Len(handled')].again

\* C36: handling again a replay envelope that was already handled (same
\* replayId) leaves the conversation as it was: no user message and no
\* assistant content is added.
C36_ReplayIdempotent ==
    [][ Redelivered => Conversation(messages') = Conversation(messages) ]_vars

\* A step that handles a bridge/replay envelope
ReplayHandled ==
    /\ Len(handled') = Len(handled) + 1
    /\ handled'[Len(handled')].replay

\* The turn_completed events emitted so far
TurnCompletions(events) == SelectSeq(events, LAMBDA e : e.name = "turn_completed")

\* C37: while the client has a turn of its own in progress, handling a
\* bridge/replay envelope leaves inTurn, the active assistant id and the hidden
\* mode of that turn as they were and emits no turn_completed.
C37_ReplayKeepsLiveTurn ==
    [][ (ReplayHandled /\ PendingPrompts # {} /\ inTurn) =>
          /\ inTurn' = inTurn
          /\ activeAssistantId' = activeAssistantId
          /\ currentTurnHidden' = currentTurnHidden
          /\ TurnCompletions(emitted') = TurnCompletions(emitted) ]_vars

\* The turns opened by sendMessage so far
TurnsOpened == Len(SelectSeq(calls, LAMBDA c : c = "sendMessage"))

\* C38: turn_completed is emitted only while a turn is in progress, one event
\* at a time, and never more often than turns have been opened by sendMessage.
C38_TurnCompletedOnce ==
    /\ [][ TurnCompletions(emitted') # TurnCompletions(emitted) =>
             /\ inTurn
             /\ Len(TurnCompletions(emitted')) = Len(TurnCompletions(emitted)) + 1 ]_vars
    /\ [](Len(TurnCompletions(emitted)) <= TurnsOpened)

\* The live permission requests handled, by the position that is their id
LiveRequestIds ==
    { j \in DOMAIN handled : handled[j].update = "request_permission" /\ ~handled[j].replay }

\* C39: handling a session/request_permission inside a bridge/replay envelope
\* sends nothing, starts no resolution, leaves the pending approval as it was
\* and emits nothing; every response and every session/provide_permission the
\* client has sent answers a live request.
C39_ReplayedPermissionInert ==
    /\ [][ (ReplayHandled /\ handled'[Len(handled')].update = "request_permission") =>
             /\ outbox' = outbox
             /\ resolving' = resolving
             /\ pendingApproval' = pendingApproval
             /\ emitted' = emitted ]_vars
    /\ [](\A i \in DOMAIN outbox :
            (outbox[i].kind = "response" \/ outbox[i].method = "session/provide_permission")
                => outbox[i].id \in LiveRequestIds)

\* A request replayed from a turn hidden as turn was left alone, and the live
\* request after it was answered by the host.
C39_Witness ==
    /\ Len(handled) = 2
    /\ handled[1].update = "request_permission" /\ handled[1].replay /\ handled[1].env = "turn"
    /\ handled[2].update = "request_permission" /\ ~handled[2].replay
    /\ Len(outbox) = 1
    /\ outbox[1].kind = "response" /\ outbox[1].id = 2
====
